---- MODULE Spec2Model ----
(***************************************************************************)
(* go-tabbyapi: the SSE stream engines (internal/stream.Stream[T] and      *)
(* tabby.GenericStream[T]), the REST transport (internal/rest Client,      *)
(* internal/errors), the client's construction, configuration and service  *)
(* calls (tabby.clientImpl, completionsService) and the retry policies.    *)
(*                                                                         *)
(* Strings are sequences of one-character strings, so that ReadString,     *)
(* Split, TrimRight, HasPrefix, TrimSpace and SplitN are computed the way  *)
(* the Go code computes them.  T is instantiated as int: a payload decodes *)
(* when, after JSON whitespace is skipped, it is one decimal number.       *)
(***************************************************************************)
EXTENDS Integers, Sequences, FiniteSets, TLC

VARIABLES
    input,      \* how the response body was produced: [lines, crlf, term]
    ioErr,      \* TRUE: the body's Read fails (non-EOF) once its bytes are exhausted
    pos,        \* s.reader: number of body characters consumed by ReadString
    closed,     \* s.closed
    ctxErr,     \* s.ctx.Err(): NilErr until the context is done
    bodyCloses, \* number of calls of s.response.Body.Close()
    results,    \* the (item, err) pairs returned by the Recv calls so far
    event,      \* the sseEvent of the last Recv that parsed one (event.data goes to json.Unmarshal)
    closeRets,  \* the errors returned by the Close calls so far
    ret,        \* the last call: [op, err, item, flag]
    timer,      \* the http.Client's timer over the exchange that carries the body
    wire,       \* the HTTP exchange of the last transport call
    call,       \* the last transport call and what it returned
    client,     \* the clientImpl: [auth, retryPolicy, timeout]
    restClient, \* clientImpl.restClient and the rest.Client it points to: [made, id, auth,
                \* baseURL, httpClient]; id tells the rest.Client objects apart
    svc,        \* the last service call and what it returned
    policyCall, \* the last call of a RetryPolicy method and what it returned
    service,    \* the completionsService the last accessor call returned: [baseURL]
    mu,         \* s.mu: 0 when unlocked, else the goroutine that holds it
    threads,    \* the goroutines sharing one stream: [pc, buffer, got]
    generic,    \* a tabby.GenericStream[T] over the same body and context events:
                \* [pos, closed, ctxErr, bodyCloses, results, closeRets]
    request     \* the request of the last service call: [passed, req, json], what the
                \* caller passed, the caller's struct after the call, the JSON body

streamVars == <<input, ioErr, pos, closed, ctxErr, bodyCloses, results, event, closeRets, ret,
                timer>>

restVars == <<wire, call>>

configVars == <<client, restClient, svc, policyCall, service>>

concVars == <<mu, threads>>

vars == <<streamVars, restVars, configVars, concVars, generic, request>>

(***************************************************************************)
(* Bounds                                                                  *)
(***************************************************************************)
MaxLines == 4       \* lines of a body in SpecParse
MaxLifeLines == 3   \* lines of a body in Spec
MaxRecv == 4        \* Recv calls on one stream
MaxClose == 2       \* Close calls on one stream

(***************************************************************************)
(* Characters and strings                                                  *)
(***************************************************************************)
LF == "LF"
CR == "CR"
TAB == "TAB"
SP == " "

\* unicode.IsSpace, restricted to the characters that occur
IsSpace(c) == c \in {SP, TAB, LF, CR}

Min(S) == CHOOSE x \in S : \A y \in S : x <= y

\* strings.IndexByte(s[from-1:], c) as a 1-based index into s, 0 when absent
RECURSIVE IndexFrom(_, _, _)
IndexFrom(s, c, from) ==
    IF from > Len(s) THEN 0
    ELSE IF s[from] = c THEN from
    ELSE IndexFrom(s, c, from + 1)

HasPrefix(s, p) == Len(s) >= Len(p) /\ SubSeq(s, 1, Len(p)) = p

Contains(s, c) == \E i \in 1..Len(s) : s[i] = c

RECURSIVE TrimRightCR(_)
TrimRightCR(s) ==
    IF s # <<>> /\ s[Len(s)] = CR THEN TrimRightCR(SubSeq(s, 1, Len(s) - 1)) ELSE s

RECURSIVE TrimSpaceLeft(_)
TrimSpaceLeft(s) ==
    IF s # <<>> /\ IsSpace(s[1]) THEN TrimSpaceLeft(Tail(s)) ELSE s

RECURSIVE TrimSpaceRight(_)
TrimSpaceRight(s) ==
    IF s # <<>> /\ IsSpace(s[Len(s)]) THEN TrimSpaceRight(SubSeq(s, 1, Len(s) - 1)) ELSE s

TrimSpace(s) == TrimSpaceRight(TrimSpaceLeft(s))

\* strings.Split(s, "\n"): n separators give n+1 pieces
RECURSIVE Split(_)
Split(s) ==
    LET i == IndexFrom(s, LF, 1)
    IN  IF i = 0 THEN <<s>>
        ELSE <<SubSeq(s, 1, i - 1)>> \o Split(SubSeq(s, i + 1, Len(s)))

\* strings.SplitN(line, ":", 2) on a line that contains ":"
SplitN2(line) ==
    LET i == IndexFrom(line, ":", 1)
    IN  <<SubSeq(line, 1, i - 1), SubSeq(line, i + 1, Len(line))>>

(***************************************************************************)
(* Errors                                                                  *)
(***************************************************************************)
NilErr == [kind |-> "nil", msg |-> ""]
EOF == [kind |-> "EOF", msg |-> "EOF"]
ErrStreamClosed == [kind |-> "StreamError", msg |-> "stream closed"]
Canceled == [kind |-> "context", msg |-> "context canceled"]
DeadlineExceeded == [kind |-> "context", msg |-> "context deadline exceeded"]
ReadError == [kind |-> "StreamError", msg |-> "error reading from stream"]
UnmarshalError == [kind |-> "StreamError", msg |-> "failed to unmarshal event data"]
BodyCloseError == [kind |-> "io", msg |-> "close failed"]

(***************************************************************************)
(* json.Unmarshal([]byte(data), &item) for T = int                         *)
(***************************************************************************)
Digits == {"1", "2"}
DigitVal(c) == IF c = "1" THEN 1 ELSE 2

IsJSONSpace(c) == c \in {SP, TAB, LF, CR}

RECURSIVE TrimJSONLeft(_)
TrimJSONLeft(s) ==
    IF s # <<>> /\ IsJSONSpace(s[1]) THEN TrimJSONLeft(Tail(s)) ELSE s

RECURSIVE TrimJSONRight(_)
TrimJSONRight(s) ==
    IF s # <<>> /\ IsJSONSpace(s[Len(s)]) THEN TrimJSONRight(SubSeq(s, 1, Len(s) - 1)) ELSE s

RECURSIVE Decimal(_)
Decimal(s) ==
    IF s = <<>> THEN 0 ELSE 10 * Decimal(SubSeq(s, 1, Len(s) - 1)) + DigitVal(s[Len(s)])

\* the part of a payload that decodes before the decoder meets what does not
RECURSIVE LeadingDigits(_)
LeadingDigits(s) ==
    IF s # <<>> /\ s[1] \in Digits THEN <<s[1]>> \o LeadingDigits(Tail(s)) ELSE <<>>

\* json.Unmarshal(data, &item): ok is err == nil, item the decoded value, and
\* target what the variable item holds after the call, which after a failure
\* is what was decoded into it before the failure
Unmarshal(data) ==
    LET tok == TrimJSONRight(TrimJSONLeft(data))
    IN  IF tok # <<>> /\ \A i \in 1..Len(tok) : tok[i] \in Digits
        THEN [ok |-> TRUE, item |-> Decimal(tok), target |-> Decimal(tok)]
        ELSE [ok |-> FALSE, item |-> 0, target |-> Decimal(LeadingDigits(tok))]

(***************************************************************************)
(* parseEvent                                                              *)
(***************************************************************************)
NoEvent == [id |-> <<>>, event |-> <<>>, data |-> <<>>]

AppendData(ev, value) ==
    [ev EXCEPT !.data = (IF ev.data # <<>> THEN ev.data \o <<LF>> ELSE ev.data) \o value]

\* the body of parseEvent's loop for one piece of strings.Split
parseLine(ev, rawLine) ==
    LET line == TrimRightCR(rawLine)
    IN  IF line = <<>> THEN ev
        ELSE IF HasPrefix(line, <<"i", "d", ":">>)
             THEN [ev EXCEPT !.id = TrimSpace(SubSeq(line, 4, Len(line)))]
        ELSE IF HasPrefix(line, <<"e", "v", "e", "n", "t", ":">>)
             THEN [ev EXCEPT !.event = TrimSpace(SubSeq(line, 7, Len(line)))]
        ELSE IF HasPrefix(line, <<"d", "a", "t", "a", ":">>)
             THEN AppendData(ev, TrimSpace(SubSeq(line, 6, Len(line))))
        ELSE IF HasPrefix(line, <<":">>)
             THEN ev
        ELSE IF Contains(line, ":")
             THEN LET parts == SplitN2(line)
                      field == TrimSpace(parts[1])
                      value == TrimSpace(parts[2])
                  IN  IF field = <<"i", "d">> THEN [ev EXCEPT !.id = value]
                      ELSE IF field = <<"e", "v", "e", "n", "t">> THEN [ev EXCEPT !.event = value]
                      ELSE IF field = <<"d", "a", "t", "a">> THEN AppendData(ev, value)
                      ELSE ev
        ELSE ev

RECURSIVE parseLines(_, _)
parseLines(ev, pieces) ==
    IF pieces = <<>> THEN ev ELSE parseLines(parseLine(ev, Head(pieces)), Tail(pieces))

parseEvent(eventStr) ==
    LET ev == parseLines([id |-> <<>>, event |-> <<>>, data |-> <<>>], Split(eventStr))
    IN  IF ev.event = <<>> THEN [ev EXCEPT !.event = <<"m", "e", "s", "s", "a", "g", "e">>] ELSE ev

(***************************************************************************)
(* The response body and its reader                                        *)
(***************************************************************************)
EOL(in) == IF in.crlf THEN <<CR, LF>> ELSE <<LF>>

RECURSIVE Render(_, _, _)
Render(lines, eol, term) ==
    IF lines = <<>> THEN <<>>
    ELSE IF Len(lines) = 1 THEN Head(lines) \o (IF term THEN eol ELSE <<>>)
    ELSE Head(lines) \o eol \o Render(Tail(lines), eol, term)

\* the bytes of the response body
BodyOf(in) == Render(in.lines, EOL(in), in.term)

\* s.reader.ReadString('\n') at offset p of body b: the bytes up to and
\* including the delimiter, or what is left together with the read error
ReadString(b, p, failing) ==
    LET i == IndexFrom(b, LF, p + 1)
    IN  IF i # 0
        THEN [line |-> SubSeq(b, p + 1, i), pos |-> i, err |-> "nil"]
        ELSE [line |-> SubSeq(b, p + 1, Len(b)), pos |-> Len(b),
              err |-> IF failing THEN "io" ELSE "EOF"]

\* readEventLoop with only "\n" taken as the blank line
RECURSIVE readEventLoopLFOnly(_, _, _, _)
readEventLoopLFOnly(b, p, failing, buffer) ==
    LET r == ReadString(b, p, failing)
    IN  IF r.err # "nil"
        THEN IF r.err = "EOF"
             THEN IF Len(buffer) > 0
                  THEN [ev |-> parseEvent(buffer), parsed |-> TRUE, err |-> NilErr, pos |-> r.pos]
                  ELSE [ev |-> NoEvent, parsed |-> FALSE, err |-> EOF, pos |-> r.pos]
             ELSE [ev |-> NoEvent, parsed |-> FALSE, err |-> ReadError, pos |-> r.pos]
        ELSE IF r.line = <<LF>>
             THEN IF Len(buffer) > 0
                  THEN [ev |-> parseEvent(buffer), parsed |-> TRUE, err |-> NilErr, pos |-> r.pos]
                  ELSE readEventLoopLFOnly(b, r.pos, failing, buffer)
             ELSE readEventLoopLFOnly(b, r.pos, failing, buffer \o r.line)

\* readEventLoop ending an event at every blank line, the buffer empty or not
RECURSIVE readEventLoopEmptyEvents(_, _, _, _)
readEventLoopEmptyEvents(b, p, failing, buffer) ==
    LET r == ReadString(b, p, failing)
    IN  IF r.err # "nil"
        THEN IF r.err = "EOF"
             THEN IF Len(buffer) > 0
                  THEN [ev |-> parseEvent(buffer), parsed |-> TRUE, err |-> NilErr, pos |-> r.pos]
                  ELSE [ev |-> NoEvent, parsed |-> FALSE, err |-> EOF, pos |-> r.pos]
             ELSE [ev |-> NoEvent, parsed |-> FALSE, err |-> ReadError, pos |-> r.pos]
        ELSE IF r.line = <<LF>> \/ r.line = <<CR, LF>>
             THEN [ev |-> parseEvent(buffer), parsed |-> TRUE, err |-> NilErr, pos |-> r.pos]
             ELSE readEventLoopEmptyEvents(b, r.pos, failing, buffer \o r.line)

RECURSIVE readEventLoop(_, _, _, _)
readEventLoop(b, p, failing, buffer) ==
    LET r == ReadString(b, p, failing)
    IN  IF r.err # "nil"
        THEN IF r.err = "EOF"
             THEN IF Len(buffer) > 0
                  THEN [ev |-> parseEvent(buffer), parsed |-> TRUE, err |-> NilErr, pos |-> r.pos]
                  ELSE [ev |-> NoEvent, parsed |-> FALSE, err |-> EOF, pos |-> r.pos]
             ELSE [ev |-> NoEvent, parsed |-> FALSE, err |-> ReadError, pos |-> r.pos]
        ELSE IF r.line = <<LF>> \/ r.line = <<CR, LF>>
             THEN IF Len(buffer) > 0
                  THEN [ev |-> parseEvent(buffer), parsed |-> TRUE, err |-> NilErr, pos |-> r.pos]
                  ELSE readEventLoop(b, r.pos, failing, buffer)
             ELSE readEventLoop(b, r.pos, failing, buffer \o r.line)

readEvent(b, p, failing) == readEventLoop(b, p, failing, <<>>)

\* the goroutines that may share one stream; pc is where a goroutine is
\* ("idle": not in a call), buffer the bytes.Buffer of its readEvent, got the
\* indices in results of what its Recv calls returned
Threads == {1, 2}

NoThreads == [t \in Threads |-> [pc |-> "idle", buffer |-> <<>>, got |-> {}]]

\* the timer of the http.Client that performed the exchange: "off" (Timeout
\* 0), "running", or "expired" with avail the number of body bytes that had
\* arrived when it fired
NoTimer == [state |-> "off", avail |-> 0]

\* the bytes the body delivers
Delivered ==
    IF timer.state = "expired" THEN SubSeq(BodyOf(input), 1, timer.avail) ELSE BodyOf(input)

\* whether the body's Read fails once these bytes are used up
ReadFails == ioErr \/ timer.state = "expired"

(***************************************************************************)
(* Stream[T]                                                               *)
(***************************************************************************)
\* RecvStep with the context checked before the closed flag
RecvStepCtxFirst(b, p, failing, isClosed, cerr) ==
    IF cerr # NilErr
    THEN [item |-> 0, err |-> cerr, pos |-> p, parsed |-> FALSE, ev |-> NoEvent]
    ELSE IF isClosed
    THEN [item |-> 0, err |-> ErrStreamClosed, pos |-> p, parsed |-> FALSE, ev |-> NoEvent]
    ELSE LET e == readEvent(b, p, failing)
         IN  IF e.err # NilErr
             THEN [item |-> 0, err |-> e.err, pos |-> e.pos, parsed |-> FALSE, ev |-> NoEvent]
             ELSE LET u == Unmarshal(e.ev.data)
                  IN  IF ~u.ok
                      THEN [item |-> 0, err |-> UnmarshalError, pos |-> e.pos,
                            parsed |-> TRUE, ev |-> e.ev]
                      ELSE [item |-> u.item, err |-> NilErr, pos |-> e.pos,
                            parsed |-> TRUE, ev |-> e.ev]

\* RecvStep without the check of the context
RecvStepNoCtxCheck(b, p, failing, isClosed, cerr) ==
    IF isClosed
    THEN [item |-> 0, err |-> ErrStreamClosed, pos |-> p, parsed |-> FALSE, ev |-> NoEvent]
    ELSE LET e == readEvent(b, p, failing)
         IN  IF e.err # NilErr
             THEN [item |-> 0, err |-> e.err, pos |-> e.pos, parsed |-> FALSE, ev |-> NoEvent]
             ELSE LET u == Unmarshal(e.ev.data)
                  IN  IF ~u.ok
                      THEN [item |-> 0, err |-> UnmarshalError, pos |-> e.pos,
                            parsed |-> TRUE, ev |-> e.ev]
                      ELSE [item |-> u.item, err |-> NilErr, pos |-> e.pos,
                            parsed |-> TRUE, ev |-> e.ev]

\* RecvStep returning the variable it decoded into when the decoding fails
RecvStepReturnsTarget(b, p, failing, isClosed, cerr) ==
    IF isClosed
    THEN [item |-> 0, err |-> ErrStreamClosed, pos |-> p, parsed |-> FALSE, ev |-> NoEvent]
    ELSE IF cerr # NilErr
    THEN [item |-> 0, err |-> cerr, pos |-> p, parsed |-> FALSE, ev |-> NoEvent]
    ELSE LET e == readEvent(b, p, failing)
         IN  IF e.err # NilErr
             THEN [item |-> 0, err |-> e.err, pos |-> e.pos, parsed |-> FALSE, ev |-> NoEvent]
             ELSE LET u == Unmarshal(e.ev.data)
                  IN  IF ~u.ok
                      THEN [item |-> u.target, err |-> UnmarshalError, pos |-> e.pos,
                            parsed |-> TRUE, ev |-> e.ev]
                      ELSE [item |-> u.item, err |-> NilErr, pos |-> e.pos,
                            parsed |-> TRUE, ev |-> e.ev]

\* RecvStep looking at the context only after readEvent has returned
RecvStepCtxAfterRead(b, p, failing, isClosed, cerr) ==
    IF isClosed
    THEN [item |-> 0, err |-> ErrStreamClosed, pos |-> p, parsed |-> FALSE, ev |-> NoEvent]
    ELSE LET e == readEvent(b, p, failing)
         IN  IF cerr # NilErr
             THEN [item |-> 0, err |-> cerr, pos |-> e.pos, parsed |-> FALSE, ev |-> NoEvent]
             ELSE IF e.err # NilErr
             THEN [item |-> 0, err |-> e.err, pos |-> e.pos, parsed |-> FALSE, ev |-> NoEvent]
             ELSE LET u == Unmarshal(e.ev.data)
                  IN  IF ~u.ok
                      THEN [item |-> 0, err |-> UnmarshalError, pos |-> e.pos,
                            parsed |-> TRUE, ev |-> e.ev]
                      ELSE [item |-> u.item, err |-> NilErr, pos |-> e.pos,
                            parsed |-> TRUE, ev |-> e.ev]

\* what one Recv call does in a given state of the stream
RecvStep(b, p, failing, isClosed, cerr) ==
    IF isClosed
    THEN [item |-> 0, err |-> ErrStreamClosed, pos |-> p, parsed |-> FALSE, ev |-> NoEvent]
    ELSE IF cerr # NilErr
    THEN [item |-> 0, err |-> cerr, pos |-> p, parsed |-> FALSE, ev |-> NoEvent]
    ELSE LET e == readEvent(b, p, failing)
         IN  IF e.err # NilErr
             THEN [item |-> 0, err |-> e.err, pos |-> e.pos, parsed |-> FALSE, ev |-> NoEvent]
             ELSE LET u == Unmarshal(e.ev.data)
                  IN  IF ~u.ok
                      THEN [item |-> 0, err |-> UnmarshalError, pos |-> e.pos,
                            parsed |-> TRUE, ev |-> e.ev]
                      ELSE [item |-> u.item, err |-> NilErr, pos |-> e.pos,
                            parsed |-> TRUE, ev |-> e.ev]

\* Recv closing the stream when an event does not decode
RecvCloseOnDecodeError ==
    /\ Len(results) < MaxRecv
    /\ LET r == RecvStep(Delivered, pos, ReadFails, closed, ctxErr)
       IN  /\ pos' = r.pos
           /\ results' = Append(results, [item |-> r.item, err |-> r.err])
           /\ event' = IF r.parsed THEN r.ev ELSE event
           /\ ret' = [op |-> "Recv", err |-> r.err, item |-> r.item, flag |-> FALSE]
           /\ IF r.err = UnmarshalError
              THEN /\ closed' = TRUE
                   /\ ctxErr' = Canceled
                   /\ bodyCloses' = bodyCloses + 1
              ELSE UNCHANGED <<closed, ctxErr, bodyCloses>>
    /\ UNCHANGED <<input, ioErr, closeRets>>
    /\ UNCHANGED <<timer, restVars, configVars>>
    /\ UNCHANGED <<concVars, generic, request>>

\* Recv closing the stream when it reaches the end of the body
RecvCloseOnEOF ==
    /\ Len(results) < MaxRecv
    /\ LET r == RecvStep(Delivered, pos, ReadFails, closed, ctxErr)
       IN  /\ pos' = r.pos
           /\ results' = Append(results, [item |-> r.item, err |-> r.err])
           /\ event' = IF r.parsed THEN r.ev ELSE event
           /\ ret' = [op |-> "Recv", err |-> r.err, item |-> r.item, flag |-> FALSE]
           /\ IF r.err = EOF
              THEN /\ closed' = TRUE
                   /\ ctxErr' = Canceled
                   /\ bodyCloses' = bodyCloses + 1
              ELSE UNCHANGED <<closed, ctxErr, bodyCloses>>
    /\ UNCHANGED <<input, ioErr, closeRets>>
    /\ UNCHANGED <<timer, restVars, configVars>>
    /\ UNCHANGED <<concVars, generic, request>>

\* Recv putting the reader back where it was when an event does not decode
RecvRewindOnDecodeError ==
    /\ Len(results) < MaxRecv
    /\ LET r == RecvStep(Delivered, pos, ReadFails, closed, ctxErr)
       IN  /\ pos' = IF r.err = UnmarshalError THEN pos ELSE r.pos
           /\ results' = Append(results, [item |-> r.item, err |-> r.err])
           /\ event' = IF r.parsed THEN r.ev ELSE event
           /\ ret' = [op |-> "Recv", err |-> r.err, item |-> r.item, flag |-> FALSE]
    /\ UNCHANGED <<input, ioErr, closed, ctxErr, bodyCloses, closeRets>>
    /\ UNCHANGED <<timer, restVars, configVars>>
    /\ UNCHANGED <<concVars, generic, request>>

Recv ==
    /\ Len(results) < MaxRecv
    /\ LET r == RecvStep(Delivered, pos, ReadFails, closed, ctxErr)
       IN  /\ pos' = r.pos
           /\ results' = Append(results, [item |-> r.item, err |-> r.err])
           /\ event' = IF r.parsed THEN r.ev ELSE event
           /\ ret' = [op |-> "Recv", err |-> r.err, item |-> r.item, flag |-> FALSE]
    /\ UNCHANGED <<input, ioErr, closed, ctxErr, bodyCloses, closeRets>>
    /\ UNCHANGED <<timer, restVars, configVars>>
    /\ UNCHANGED <<concVars, generic, request>>

\* Close setting the closed flag only after the body closed without error
CloseFlagAfterBody(bodyFails) ==
    /\ Len(closeRets) < MaxClose
    /\ IF closed
       THEN /\ closeRets' = Append(closeRets, NilErr)
            /\ ret' = [op |-> "Close", err |-> NilErr, item |-> 0, flag |-> FALSE]
            /\ UNCHANGED <<closed, ctxErr, bodyCloses>>
       ELSE LET e == IF bodyFails THEN BodyCloseError ELSE NilErr
            IN  /\ closed' = ~bodyFails
                /\ ctxErr' = IF ctxErr = NilErr THEN Canceled ELSE ctxErr
                /\ bodyCloses' = bodyCloses + 1
                /\ closeRets' = Append(closeRets, e)
                /\ ret' = [op |-> "Close", err |-> e, item |-> 0, flag |-> FALSE]
    /\ UNCHANGED <<input, ioErr, pos, results, event>>
    /\ UNCHANGED <<timer, restVars, configVars>>
    /\ UNCHANGED <<concVars, generic, request>>

\* Close; bodyFails is whether response.Body.Close() reports an error
Close(bodyFails) ==
    /\ Len(closeRets) < MaxClose
    /\ IF closed
       THEN /\ closeRets' = Append(closeRets, NilErr)
            /\ ret' = [op |-> "Close", err |-> NilErr, item |-> 0, flag |-> FALSE]
            /\ UNCHANGED <<closed, ctxErr, bodyCloses>>
       ELSE LET e == IF bodyFails THEN BodyCloseError ELSE NilErr
            IN  /\ closed' = TRUE
                /\ ctxErr' = IF ctxErr = NilErr THEN Canceled ELSE ctxErr
                /\ bodyCloses' = bodyCloses + 1
                /\ closeRets' = Append(closeRets, e)
                /\ ret' = [op |-> "Close", err |-> e, item |-> 0, flag |-> FALSE]
    /\ UNCHANGED <<input, ioErr, pos, results, event>>
    /\ UNCHANGED <<timer, restVars, configVars>>
    /\ UNCHANGED <<concVars, generic, request>>

IsClosed ==
    /\ ret' = [op |-> "IsClosed", err |-> NilErr, item |-> 0, flag |-> closed]
    /\ UNCHANGED <<input, ioErr, pos, closed, ctxErr, bodyCloses, results, event, closeRets>>
    /\ UNCHANGED <<timer, restVars, configVars>>
    /\ UNCHANGED <<concVars, generic, request>>

\* CancelCtx closing the response body
CancelCtxClosesBody(e) ==
    /\ ctxErr = NilErr
    /\ ctxErr' = e
    /\ bodyCloses' = bodyCloses + 1
    /\ UNCHANGED <<input, ioErr, pos, closed, results, event, closeRets, ret>>
    /\ UNCHANGED <<timer, restVars, configVars>>
    /\ UNCHANGED <<concVars, generic, request>>

\* the context given to New is cancelled, or its deadline passes
CancelCtx(e) ==
    /\ ctxErr = NilErr
    /\ ctxErr' = e
    /\ UNCHANGED <<input, ioErr, pos, closed, bodyCloses, results, event, closeRets, ret>>
    /\ UNCHANGED <<timer, restVars, configVars>>
    /\ UNCHANGED <<concVars, generic, request>>

\* New(ctx, resp)
NewStream ==
    /\ pos = 0
    /\ closed = FALSE
    /\ ctxErr = NilErr
    /\ bodyCloses = 0
    /\ results = <<>>
    /\ event = NoEvent
    /\ closeRets = <<>>
    /\ ret = [op |-> "New", err |-> NilErr, item |-> 0, flag |-> FALSE]

(***************************************************************************)
(* tabby.GenericStream[T]                                                  *)
(***************************************************************************)
\* the body of the loop of package tabby's parseEvent for one piece
tabbyParseLine(ev, rawLine) ==
    LET line == TrimRightCR(rawLine)
    IN  IF line = <<>> THEN ev
        ELSE IF HasPrefix(line, <<"i", "d", ":">>)
             THEN [ev EXCEPT !.id = TrimSpace(SubSeq(line, 4, Len(line)))]
        ELSE IF HasPrefix(line, <<"e", "v", "e", "n", "t", ":">>)
             THEN [ev EXCEPT !.event = TrimSpace(SubSeq(line, 7, Len(line)))]
        ELSE IF HasPrefix(line, <<"d", "a", "t", "a", ":">>)
             THEN [ev EXCEPT !.data = (IF ev.data # <<>> THEN ev.data \o <<LF>> ELSE ev.data)
                                      \o TrimSpace(SubSeq(line, 6, Len(line)))]
        ELSE IF HasPrefix(line, <<":">>)
             THEN ev
        ELSE IF Contains(line, ":")
             THEN LET parts == SplitN2(line)
                      field == TrimSpace(parts[1])
                      value == TrimSpace(parts[2])
                  IN  IF field = <<"i", "d">> THEN [ev EXCEPT !.id = value]
                      ELSE IF field = <<"e", "v", "e", "n", "t">> THEN [ev EXCEPT !.event = value]
                      ELSE IF field = <<"d", "a", "t", "a">>
                           THEN [ev EXCEPT !.data = (IF ev.data # <<>> THEN ev.data \o <<LF>>
                                                     ELSE ev.data) \o value]
                      ELSE ev
        ELSE ev

RECURSIVE tabbyParseLines(_, _)
tabbyParseLines(ev, pieces) ==
    IF pieces = <<>> THEN ev
    ELSE tabbyParseLines(tabbyParseLine(ev, Head(pieces)), Tail(pieces))

\* parseEvent of package tabby
tabbyParseEvent(eventStr) ==
    LET ev == tabbyParseLines([id |-> <<>>, event |-> <<>>, data |-> <<>>], Split(eventStr))
    IN  IF ev.event = <<>> THEN [ev EXCEPT !.event = <<"m", "e", "s", "s", "a", "g", "e">>] ELSE ev

\* GenericStream's readEvent dropping an event that the end of the body cuts short
RECURSIVE genericReadEventLoopDropsTail(_, _, _, _)
genericReadEventLoopDropsTail(b, p, failing, buffer) ==
    LET r == ReadString(b, p, failing)
    IN  IF r.err # "nil"
        THEN IF r.err = "EOF"
             THEN [ev |-> NoEvent, parsed |-> FALSE, err |-> EOF, pos |-> r.pos]
             ELSE [ev |-> NoEvent, parsed |-> FALSE, err |-> ReadError, pos |-> r.pos]
        ELSE IF r.line = <<LF>> \/ r.line = <<CR, LF>>
             THEN IF Len(buffer) > 0
                  THEN [ev |-> tabbyParseEvent(buffer), parsed |-> TRUE, err |-> NilErr,
                        pos |-> r.pos]
                  ELSE genericReadEventLoopDropsTail(b, r.pos, failing, buffer)
             ELSE genericReadEventLoopDropsTail(b, r.pos, failing, buffer \o r.line)

\* the loop of GenericStream's readEvent
RECURSIVE genericReadEventLoop(_, _, _, _)
genericReadEventLoop(b, p, failing, buffer) ==
    LET r == ReadString(b, p, failing)
    IN  IF r.err # "nil"
        THEN IF r.err = "EOF"
             THEN IF Len(buffer) > 0
                  THEN [ev |-> tabbyParseEvent(buffer), parsed |-> TRUE, err |-> NilErr,
                        pos |-> r.pos]
                  ELSE [ev |-> NoEvent, parsed |-> FALSE, err |-> EOF, pos |-> r.pos]
             ELSE [ev |-> NoEvent, parsed |-> FALSE, err |-> ReadError, pos |-> r.pos]
        ELSE IF r.line = <<LF>> \/ r.line = <<CR, LF>>
             THEN IF Len(buffer) > 0
                  THEN [ev |-> tabbyParseEvent(buffer), parsed |-> TRUE, err |-> NilErr,
                        pos |-> r.pos]
                  ELSE genericReadEventLoop(b, r.pos, failing, buffer)
             ELSE genericReadEventLoop(b, r.pos, failing, buffer \o r.line)

genericReadEvent(b, p, failing) == genericReadEventLoop(b, p, failing, <<>>)

\* newGenericStream(ctx, resp)
newGenericStream ==
    [pos |-> 0, closed |-> FALSE, ctxErr |-> NilErr, bodyCloses |-> 0, results |-> <<>>,
     closeRets |-> <<>>]

\* what one call of GenericStream's Recv does in a given state of the stream
GenericRecvStep(b, p, failing, isClosed, cerr) ==
    IF isClosed
    THEN [item |-> 0, err |-> ErrStreamClosed, pos |-> p]
    ELSE IF cerr # NilErr
    THEN [item |-> 0, err |-> cerr, pos |-> p]
    ELSE LET e == genericReadEvent(b, p, failing)
         IN  IF e.err # NilErr
             THEN [item |-> 0, err |-> e.err, pos |-> e.pos]
             ELSE LET u == Unmarshal(e.ev.data)
                  IN  IF ~u.ok
                      THEN [item |-> 0, err |-> UnmarshalError, pos |-> e.pos]
                      ELSE [item |-> u.item, err |-> NilErr, pos |-> e.pos]

\* GenericStream's Recv
GenericRecv ==
    /\ LET r == GenericRecvStep(Delivered, generic.pos, ReadFails, generic.closed,
                                generic.ctxErr)
       IN  generic' = [generic EXCEPT !.pos = r.pos,
                                      !.results = Append(@, [item |-> r.item, err |-> r.err])]
    /\ UNCHANGED <<streamVars, restVars, configVars, concVars, request>>

\* GenericStream's Close; bodyFails is whether response.Body.Close() reports an error
GenericClose(bodyFails) ==
    /\ generic' = IF generic.closed
                  THEN [generic EXCEPT !.closeRets = Append(@, NilErr)]
                  ELSE [generic EXCEPT
                            !.closed = TRUE,
                            !.ctxErr = IF @ = NilErr THEN Canceled ELSE @,
                            !.bodyCloses = @ + 1,
                            !.closeRets = Append(@, IF bodyFails THEN BodyCloseError
                                                    ELSE NilErr)]
    /\ UNCHANGED <<streamVars, restVars, configVars, concVars, request>>

\* the context given to newGenericStream is cancelled, or its deadline passes
GenericCancelCtx(e) ==
    /\ generic.ctxErr = NilErr
    /\ generic' = [generic EXCEPT !.ctxErr = e]
    /\ UNCHANGED <<streamVars, restVars, configVars, concVars, request>>

(***************************************************************************)
(* Errors of the transport (internal/errors)                               *)
(***************************************************************************)
\* pkg is the package that declares the error's type
NoError == [pkg |-> "", type |-> "nil", StatusCode |-> 0, Message |-> "", Err |-> ""]

APIError(status, message) ==
    [pkg |-> "internal/errors", type |-> "APIError", StatusCode |-> status,
     Message |-> message, Err |-> ""]

RequestError(message, status, cause) ==
    [pkg |-> "internal/errors", type |-> "RequestError", StatusCode |-> status,
     Message |-> message, Err |-> cause]

\* (*APIError).Code and (*RequestError).Code
Code(e) ==
    IF e.type = "RequestError" THEN "request_error"
    ELSE IF e.StatusCode = 400 THEN "invalid_request"
    ELSE IF e.StatusCode = 401 THEN "authentication_error"
    ELSE IF e.StatusCode = 403 THEN "permission_error"
    ELSE IF e.StatusCode = 404 THEN "not_found"
    ELSE IF e.StatusCode = 429 THEN "rate_limit_exceeded"
    ELSE IF e.StatusCode >= 500 THEN "server_error"
    ELSE "api_error"

\* (*APIError).HTTPStatusCode and (*RequestError).HTTPStatusCode
HTTPStatusCode(e) ==
    IF e.type = "RequestError"
    THEN IF e.StatusCode # 0 THEN e.StatusCode ELSE 500
    ELSE e.StatusCode

(***************************************************************************)
(* Responses                                                               *)
(***************************************************************************)
Statuses == {101, 200, 204, 299, 304, 400, 401, 403, 404, 418, 429, 499, 500, 503, 599}

\* net/http.StatusText: the reason phrase, "" for a code without one
StatusText(s) ==
    CASE s = 101 -> "Switching Protocols"
      [] s = 200 -> "OK"
      [] s = 204 -> "No Content"
      [] s = 304 -> "Not Modified"
      [] s = 400 -> "Bad Request"
      [] s = 401 -> "Unauthorized"
      [] s = 403 -> "Forbidden"
      [] s = 404 -> "Not Found"
      [] s = 418 -> "I'm a teapot"
      [] s = 429 -> "Too Many Requests"
      [] s = 500 -> "Internal Server Error"
      [] s = 503 -> "Service Unavailable"
      [] OTHER -> ""

\* sc: the body's status_code (ScAbsent: no such key, ScString: a JSON string);
\* msgKind: the body's message key ("absent", "string", "number"); detail: the
\* text under a key the error shape does not have
ScAbsent == 0 - 1
ScString == 0 - 2

Doc(raw, kind, sc, msgKind, msg, detail) ==
    [raw |-> raw, kind |-> kind, sc |-> sc, msgKind |-> msgKind, msg |-> msg, detail |-> detail]

EmptyBody == Doc("", "empty", ScAbsent, "absent", "", "")

RespBodies == {
    EmptyBody,
    Doc("upstream connect error", "text", ScAbsent, "absent", "", ""),
    Doc("null", "null", ScAbsent, "absent", "", ""),
    Doc("[1]", "array", ScAbsent, "absent", "", ""),
    Doc("{}", "object", ScAbsent, "absent", "", ""),
    Doc("{'message':'bad field','status_code':400}", "object", 400, "string", "bad field", ""),
    Doc("{'message':'created','status_code':200}", "object", 200, "string", "created", ""),
    Doc("{'message':'no such model'}", "object", ScAbsent, "string", "no such model", ""),
    Doc("{'message':'m','status_code':'400'}", "object", ScString, "string", "m", ""),
    Doc("{'message':5}", "object", ScAbsent, "number", "", ""),
    Doc("{'detail':'model not loaded'}", "object", ScAbsent, "absent", "", "model not loaded") }

\* json.Unmarshal(body, &apiError): a key of the wrong JSON type, or a document
\* that is not an object or null, is an error; unknown keys are skipped
UnmarshalAPIError(body) ==
    IF body.kind \in {"text", "array"} THEN [ok |-> FALSE, StatusCode |-> 0, Message |-> ""]
    ELSE IF body.kind = "null" THEN [ok |-> TRUE, StatusCode |-> 0, Message |-> ""]
    ELSE [ok |-> body.sc # ScString /\ body.msgKind # "number",
          StatusCode |-> IF body.sc >= 0 THEN body.sc ELSE 0,
          Message |-> IF body.msgKind = "string" THEN body.msg ELSE ""]

\* json.Unmarshal(body, result) for a result struct with a string field "message"
UnmarshalResult(body) ==
    IF body.kind \in {"text", "array"} THEN [ok |-> FALSE, message |-> ""]
    ELSE IF body.kind = "null" THEN [ok |-> TRUE, message |-> ""]
    ELSE [ok |-> body.msgKind # "number",
          message |-> IF body.msgKind = "string" THEN body.msg ELSE ""]

(***************************************************************************)
(* Authenticators                                                          *)
(***************************************************************************)
\* a nil Authenticator
NilAuth == [kind |-> "nil", key |-> ""]

\* auth.NoAuth
NoAuth == [kind |-> "NoAuth", key |-> ""]

APIKeyAuthenticator(key) == [kind |-> "APIKey", key |-> key]

AdminKeyAuthenticator(key) == [kind |-> "AdminKey", key |-> key]

BearerTokenAuthenticator(token) == [kind |-> "BearerToken", key |-> token]

\* req.Header.Set(name, value): headers are <<name, value>> pairs, a value
\* being the sequence of the strings it is concatenated from
HeaderSet(h, name, value) == {x \in h : x[1] # name} \cup {<<name, value>>}

\* "Bearer " + token
BearerValue(token) == <<"Bearer ", token>>

\* a.Apply(req)
Apply(a, h) ==
    CASE a.kind = "APIKey" -> HeaderSet(h, "X-API-Key", <<a.key>>)
      [] a.kind = "AdminKey" -> HeaderSet(h, "X-Admin-Key", <<a.key>>)
      [] a.kind = "BearerToken" -> HeaderSet(h, "Authorization", BearerValue(a.key))
      [] OTHER -> h

(***************************************************************************)
(* Retry policies                                                          *)
(***************************************************************************)
\* a nil RetryPolicy
NoPolicy == [name |-> "nil", MaxRetryCount |-> 0]

\* the SimpleRetryPolicy that DefaultRetryPolicy() returns; its two
\* functions are RetryDelayFunc and RetryableFunc below, selected by name
DefaultRetryPolicy == [name |-> "default", MaxRetryCount |-> 3]

\* the customPolicy of docs/configuration.md
CustomRetryPolicy == [name |-> "custom", MaxRetryCount |-> 5]

\* a *http.Response as a policy sees it, nil when no response was received
NoResp == [present |-> FALSE, StatusCode |-> 0]

Resp(s) == [present |-> TRUE, StatusCode |-> s]

\* the values of rand.Int63n(500ms) that are followed, in milliseconds
Jitters == {0, 499}

\* 1 << uint(n) for n below the width of time.Duration; uint of a negative n
\* is at least that width and the shift gives 0
Shl1(n) == IF n < 0 THEN 0 ELSE 2 ^ n

\* p.RetryDelayFunc(attempts) in milliseconds: every value in the range of
\* attempts that is followed is a whole number of milliseconds within int64
RetryDelayFunc(p, attempts, jitter) ==
    IF p.name = "default"
    THEN Shl1(attempts - 1) * 1000 + 100 * attempts
    ELSE Shl1(attempts - 1) * 1000 + jitter

\* p.RetryableFunc(resp, err), err being "" for nil: resp.StatusCode of a nil
\* resp is a nil pointer dereference, which panics
RetryableFunc(p, resp, err) ==
    IF err # ""
    THEN [panics |-> FALSE, value |-> TRUE]
    ELSE IF ~resp.present
    THEN [panics |-> TRUE, value |-> FALSE]
    ELSE IF p.name = "default"
    THEN [panics |-> FALSE, value |-> resp.StatusCode >= 500]
    ELSE [panics |-> FALSE, value |-> resp.StatusCode >= 500 \/ resp.StatusCode = 429]

NoPolicyCall ==
    [policy |-> "nil", op |-> "none", resp |-> NoResp, err |-> "", attempts |-> 0,
     panics |-> FALSE, value |-> FALSE, delay |-> 0, count |-> 0]

(***************************************************************************)
(* clientImpl                                                              *)
(***************************************************************************)
DefaultTimeout == 30

\* a clientImpl that is not in use
\* baseURL is c.baseURL; httpClient names the http.Client that c.httpClient
\* points to ("default": the one NewClient makes, "h": one the caller made,
\* "nil": none); Timeout holds the Timeout field of each of these
\* http.Client objects; panicked: a call did not return
NoClient ==
    [auth |-> NilAuth, retryPolicy |-> NoPolicy, baseURL |-> <<>>,
     httpClient |-> "default", Timeout |-> [default |-> 0, h |-> 0], panicked |-> FALSE]

\* a nil restClient field
NoRestClient ==
    [made |-> FALSE, id |-> 0, auth |-> NilAuth, baseURL |-> <<>>, httpClient |-> "default"]

\* url is the URL the call addressed
NoSvc == [op |-> "none", wrap |-> "", err |-> NoError, stream |-> FALSE, url |-> <<>>]

NoService == [kind |-> "none", baseURL |-> <<>>]

\* a CompletionRequest or ChatCompletionRequest: its required payload (prompt,
\* messages) and its Stream field
Requests == [payload : {"p"}, Stream : BOOLEAN]

PlainRequest == [payload |-> "p", Stream |-> FALSE]

NoRequest == [passed |-> PlainRequest, req |-> PlainRequest, json |-> {}]

\* json.Marshal of a CompletionRequest: the keys of the object and their
\* values; "stream" carries omitempty and is left out when Stream is false
MarshalCompletionRequest(q) ==
    {<<"prompt", q.payload>>} \cup (IF q.Stream THEN {<<"stream", "true">>} ELSE {})

\* json.Marshal of a ChatCompletionRequest
MarshalChatRequest(q) ==
    {<<"messages", q.payload>>} \cup (IF q.Stream THEN {<<"stream", "true">>} ELSE {})

(***************************************************************************)
(* rest.Client                                                             *)
(***************************************************************************)
\* strings.TrimRight(s, "/") and strings.TrimLeft(s, "/")
RECURSIVE TrimRightSlash(_)
TrimRightSlash(s) ==
    IF s # <<>> /\ s[Len(s)] = "/" THEN TrimRightSlash(SubSeq(s, 1, Len(s) - 1)) ELSE s

RECURSIVE TrimLeftSlash(_)
TrimLeftSlash(s) ==
    IF s # <<>> /\ s[1] = "/" THEN TrimLeftSlash(Tail(s)) ELSE s

\* rest.New(baseURL, WithHTTPClient(httpClient), WithAuth(auth)): the
\* authenticator is nil unless WithAuth sets it
New(baseURL, httpClient, auth) ==
    [made |-> TRUE, id |-> 1, auth |-> auth, baseURL |-> TrimRightSlash(baseURL),
     httpClient |-> httpClient]

\* (*Client).BuildURL(endpoint, nil)
BuildURL(c, endpoint) == c.baseURL \o <<"/">> \o TrimLeftSlash(endpoint)

\* parseErrorResponse keeping the status_code of the decoded body
parseErrorResponseKeepBodyStatus(status, body, readFails) ==
    IF readFails
    THEN APIError(status, "failed to read error response body: unexpected EOF")
    ELSE IF body.kind = "empty"
    THEN APIError(status, StatusText(status))
    ELSE LET u == UnmarshalAPIError(body)
         IN  IF ~u.ok THEN APIError(status, body.raw)
             ELSE APIError(u.StatusCode, u.Message)

parseErrorResponse(status, body, readFails) ==
    IF readFails
    THEN APIError(status, "failed to read error response body: unexpected EOF")
    ELSE IF body.kind = "empty"
    THEN APIError(status, StatusText(status))
    ELSE LET u == UnmarshalAPIError(body)
         IN  IF ~u.ok THEN APIError(status, body.raw)
             ELSE APIError(status, u.Message)

NoOut == [set |-> FALSE, message |-> ""]

\* handleResponse returning nil when the 2xx body does not decode
handleResponseDecodeErrorDropped(status, body, readFails, hasResult) ==
    IF status < 200 \/ status >= 300
    THEN [err |-> parseErrorResponse(status, body, readFails), out |-> NoOut]
    ELSE IF ~hasResult \/ status = 204
    THEN [err |-> NoError, out |-> NoOut]
    ELSE IF readFails
    THEN [err |-> RequestError("failed to read response body", status, "unexpected EOF"),
          out |-> NoOut]
    ELSE IF body.kind = "empty"
    THEN [err |-> NoError, out |-> NoOut]
    ELSE LET u == UnmarshalResult(body)
         IN  IF ~u.ok
             THEN [err |-> NoError, out |-> NoOut]
             ELSE [err |-> NoError, out |-> [set |-> TRUE, message |-> u.message]]

\* the error returned and what was stored through result
handleResponse(status, body, readFails, hasResult) ==
    IF status < 200 \/ status >= 300
    THEN [err |-> parseErrorResponse(status, body, readFails), out |-> NoOut]
    ELSE IF ~hasResult \/ status = 204
    THEN [err |-> NoError, out |-> NoOut]
    ELSE IF readFails
    THEN [err |-> RequestError("failed to read response body", status, "unexpected EOF"),
          out |-> NoOut]
    ELSE IF body.kind = "empty"
    THEN [err |-> NoError, out |-> NoOut]
    ELSE LET u == UnmarshalResult(body)
         IN  IF ~u.ok
             THEN [err |-> RequestError("failed to unmarshal response body", status,
                                        "json: cannot unmarshal"),
                   out |-> NoOut]
             ELSE [err |-> NoError, out |-> [set |-> TRUE, message |-> u.message]]

NoWire ==
    [sent |-> 0, headers |-> {}, hasResp |-> FALSE, status |-> 0, body |-> EmptyBody,
     readFails |-> FALSE, bodyRead |-> FALSE, bodyClosed |-> FALSE]

NoCall ==
    [op |-> "none", method |-> "", hasResult |-> FALSE, err |-> NoError,
     out |-> NoOut, resp |-> FALSE]

\* the headers createRequest puts on the request of the client c
createRequest(c) ==
    LET h == HeaderSet({}, "Accept", <<"application/json">>)
    IN  IF c.auth # NilAuth THEN Apply(c.auth, h) ELSE h

\* DoResult sending the request again as the client's retry policy directs
DoResultRetrying(op, method, hasResult, reqFails, netFails, status, body, readFails) ==
    LET p == client.retryPolicy
        retries(resp, err) ==
            IF p # NoPolicy /\ RetryableFunc(p, resp, err).value THEN p.MaxRetryCount ELSE 0
    IN  IF reqFails
        THEN [wire |-> NoWire,
              call |-> [op |-> op, method |-> method, hasResult |-> hasResult,
                        err |-> RequestError("failed to create request", 0, "marshal"),
                        out |-> NoOut, resp |-> FALSE]]
        ELSE IF netFails
        THEN [wire |-> [NoWire EXCEPT !.sent = 1 + retries(NoResp, "dial tcp"),
                                      !.headers = createRequest(restClient)],
              call |-> [op |-> op, method |-> method, hasResult |-> hasResult,
                        err |-> RequestError("failed to execute request", 0, "dial tcp"),
                        out |-> NoOut, resp |-> FALSE]]
        ELSE LET h == handleResponse(status, body, readFails, hasResult)
                 ok == status >= 200 /\ status < 300
             IN  [wire |-> [sent |-> 1 + retries(Resp(status), ""),
                            headers |-> createRequest(restClient),
                            hasResp |-> TRUE, status |-> status, body |-> body,
                            readFails |-> readFails,
                            bodyRead |-> ~ok \/ (hasResult /\ status # 204),
                            bodyClosed |-> TRUE],
                  call |-> [op |-> op, method |-> method, hasResult |-> hasResult,
                            err |-> h.err, out |-> h.out, resp |-> FALSE]]

\* what Do does on the wire and what it returns: reqFails is createRequest
\* failing, netFails is httpClient.Do failing, otherwise the server answers
\* (status, body)
DoResult(op, method, hasResult, reqFails, netFails, status, body, readFails) ==
    IF reqFails
    THEN [wire |-> NoWire,
          call |-> [op |-> op, method |-> method, hasResult |-> hasResult,
                    err |-> RequestError("failed to create request", 0, "marshal"),
                    out |-> NoOut, resp |-> FALSE]]
    ELSE IF netFails
    THEN [wire |-> [NoWire EXCEPT !.sent = 1, !.headers = createRequest(restClient)],
          call |-> [op |-> op, method |-> method, hasResult |-> hasResult,
                    err |-> RequestError("failed to execute request", 0, "dial tcp"),
                    out |-> NoOut, resp |-> FALSE]]
    ELSE LET h == handleResponse(status, body, readFails, hasResult)
             ok == status >= 200 /\ status < 300
         IN  [wire |-> [sent |-> 1, headers |-> createRequest(restClient),
                        hasResp |-> TRUE, status |-> status, body |-> body,
                        readFails |-> readFails,
                        bodyRead |-> ~ok \/ (hasResult /\ status # 204),
                        bodyClosed |-> TRUE],
              call |-> [op |-> op, method |-> method, hasResult |-> hasResult,
                        err |-> h.err, out |-> h.out, resp |-> FALSE]]

Do(op, method, hasResult, reqFails, netFails, status, body, readFails) ==
    /\ \E r \in {DoResult(op, method, hasResult, reqFails, netFails, status, body, readFails)} :
          /\ wire' = r.wire
          /\ call' = r.call
    /\ UNCHANGED <<streamVars, configVars>>
    /\ UNCHANGED <<concVars, generic, request>>

\* DoRawResult without the deferred Close of an error response's body
DoRawResultErrorBodyOpen(method, reqFails, netFails, status, body, readFails) ==
    IF reqFails
    THEN [wire |-> NoWire,
          call |-> [op |-> "DoRaw", method |-> method, hasResult |-> FALSE,
                    err |-> RequestError("failed to create request", 0, "marshal"),
                    out |-> NoOut, resp |-> FALSE]]
    ELSE IF netFails
    THEN [wire |-> [NoWire EXCEPT !.sent = 1, !.headers = createRequest(restClient)],
          call |-> [op |-> "DoRaw", method |-> method, hasResult |-> FALSE,
                    err |-> RequestError("failed to execute request", 0, "dial tcp"),
                    out |-> NoOut, resp |-> FALSE]]
    ELSE IF status < 200 \/ status >= 300
    THEN [wire |-> [sent |-> 1, headers |-> createRequest(restClient),
                    hasResp |-> TRUE, status |-> status, body |-> body,
                    readFails |-> readFails, bodyRead |-> TRUE, bodyClosed |-> FALSE],
          call |-> [op |-> "DoRaw", method |-> method, hasResult |-> FALSE,
                    err |-> parseErrorResponse(status, body, readFails),
                    out |-> NoOut, resp |-> FALSE]]
    ELSE [wire |-> [sent |-> 1, headers |-> createRequest(restClient),
                    hasResp |-> TRUE, status |-> status, body |-> body,
                    readFails |-> readFails, bodyRead |-> FALSE, bodyClosed |-> FALSE],
          call |-> [op |-> "DoRaw", method |-> method, hasResult |-> FALSE,
                    err |-> NoError, out |-> NoOut, resp |-> TRUE]]

\* what DoRaw does on the wire and what it returns: a 2xx response is
\* returned with its body open and unread
DoRawResult(method, reqFails, netFails, status, body, readFails) ==
    IF reqFails
    THEN [wire |-> NoWire,
          call |-> [op |-> "DoRaw", method |-> method, hasResult |-> FALSE,
                    err |-> RequestError("failed to create request", 0, "marshal"),
                    out |-> NoOut, resp |-> FALSE]]
    ELSE IF netFails
    THEN [wire |-> [NoWire EXCEPT !.sent = 1, !.headers = createRequest(restClient)],
          call |-> [op |-> "DoRaw", method |-> method, hasResult |-> FALSE,
                    err |-> RequestError("failed to execute request", 0, "dial tcp"),
                    out |-> NoOut, resp |-> FALSE]]
    ELSE IF status < 200 \/ status >= 300
    THEN [wire |-> [sent |-> 1, headers |-> createRequest(restClient),
                    hasResp |-> TRUE, status |-> status, body |-> body,
                    readFails |-> readFails, bodyRead |-> TRUE, bodyClosed |-> TRUE],
          call |-> [op |-> "DoRaw", method |-> method, hasResult |-> FALSE,
                    err |-> parseErrorResponse(status, body, readFails),
                    out |-> NoOut, resp |-> FALSE]]
    ELSE [wire |-> [sent |-> 1, headers |-> createRequest(restClient),
                    hasResp |-> TRUE, status |-> status, body |-> body,
                    readFails |-> readFails, bodyRead |-> FALSE, bodyClosed |-> FALSE],
          call |-> [op |-> "DoRaw", method |-> method, hasResult |-> FALSE,
                    err |-> NoError, out |-> NoOut, resp |-> TRUE]]

DoRaw(method, reqFails, netFails, status, body, readFails) ==
    /\ \E r \in {DoRawResult(method, reqFails, netFails, status, body, readFails)} :
          /\ wire' = r.wire
          /\ call' = r.call
    /\ UNCHANGED <<streamVars, configVars>>
    /\ UNCHANGED <<concVars, generic, request>>

Get(hasResult, reqFails, netFails, status, body, readFails) ==
    Do("Get", "GET", hasResult, reqFails, netFails, status, body, readFails)

Post(hasResult, reqFails, netFails, status, body, readFails) ==
    Do("Post", "POST", hasResult, reqFails, netFails, status, body, readFails)

Put(hasResult, reqFails, netFails, status, body, readFails) ==
    Do("Put", "PUT", hasResult, reqFails, netFails, status, body, readFails)

Delete(reqFails, netFails, status, body, readFails) ==
    Do("Delete", "DELETE", FALSE, reqFails, netFails, status, body, readFails)

InitRest ==
    /\ input = [lines |-> <<>>, crlf |-> FALSE, term |-> TRUE]
    /\ ioErr = FALSE
    /\ NewStream
    /\ timer = NoTimer
    /\ wire = NoWire
    /\ call = NoCall
    /\ client = NoClient
    /\ restClient = New(<<"h">>, "http.DefaultClient", NilAuth)
    /\ svc = NoSvc
    /\ policyCall = NoPolicyCall
    /\ service = NoService
    /\ mu = 0
    /\ threads = NoThreads
    /\ generic = newGenericStream
    /\ request = NoRequest

\* what can happen to one request: it cannot be built, it cannot be sent, or
\* the server answers
Outcomes ==
    {[reqFails |-> TRUE, netFails |-> FALSE, status |-> 0, body |-> EmptyBody, readFails |-> FALSE],
     [reqFails |-> FALSE, netFails |-> TRUE, status |-> 0, body |-> EmptyBody, readFails |-> FALSE]}
    \cup {[reqFails |-> FALSE, netFails |-> FALSE, status |-> s, body |-> b, readFails |-> r] :
             s \in Statuses, b \in RespBodies, r \in BOOLEAN}

NextRest ==
    \E o \in Outcomes :
        \/ \E hasResult \in BOOLEAN :
              Get(hasResult, o.reqFails, o.netFails, o.status, o.body, o.readFails)
        \/ \E hasResult \in BOOLEAN :
              Post(hasResult, o.reqFails, o.netFails, o.status, o.body, o.readFails)
        \/ \E hasResult \in BOOLEAN :
              Put(hasResult, o.reqFails, o.netFails, o.status, o.body, o.readFails)
        \/ Delete(o.reqFails, o.netFails, o.status, o.body, o.readFails)
        \/ \E hasResult \in BOOLEAN :
              Do("Do", "PATCH", hasResult, o.reqFails, o.netFails, o.status, o.body, o.readFails)
        \/ \E m \in {"GET", "POST"} :
              DoRaw(m, o.reqFails, o.netFails, o.status, o.body, o.readFails)

SpecRest == InitRest /\ [][NextRest]_vars

(***************************************************************************)
(* Bodies                                                                  *)
(***************************************************************************)
Blank == <<>>
Data1 == <<"d", "a", "t", "a", ":", "1">>
Data2 == <<"d", "a", "t", "a", ":", SP, "2">>
DataBad == <<"d", "a", "t", "a", ":", "x">>
DataEmpty == <<"d", "a", "t", "a", ":">>
Id7 == <<"i", "d", ":", "7">>
EventE == <<"e", "v", "e", "n", "t", ":", "e">>
Comment == <<":", "c">>
Junk == <<"j", "k">>

ParseLines == {Blank, Data1, Data2, DataEmpty, Id7, EventE, Comment, Junk}
LifeLines == {Blank, Data1, DataBad}

SeqsUpTo(S, n) == UNION {[1..k -> S] : k \in 0..n}

Init ==
    /\ input \in [lines : SeqsUpTo(LifeLines, MaxLifeLines), crlf : {FALSE}, term : BOOLEAN]
    /\ ioErr \in BOOLEAN
    /\ NewStream
    /\ timer = NoTimer
    /\ wire = NoWire
    /\ call = NoCall
    /\ client = NoClient
    /\ restClient = NoRestClient
    /\ svc = NoSvc
    /\ policyCall = NoPolicyCall
    /\ service = NoService
    /\ mu = 0
    /\ threads = NoThreads
    /\ generic = newGenericStream
    /\ request = NoRequest

Next ==
    \/ Recv
    \/ \E f \in BOOLEAN : Close(f)
    \/ IsClosed
    \/ \E e \in {Canceled, DeadlineExceeded} : CancelCtx(e)

Spec == Init /\ [][Next]_vars

InitParse ==
    /\ input \in [lines : SeqsUpTo(ParseLines, MaxLines), crlf : BOOLEAN, term : BOOLEAN]
    /\ ioErr = FALSE
    /\ NewStream
    /\ timer = NoTimer
    /\ wire = NoWire
    /\ call = NoCall
    /\ client = NoClient
    /\ restClient = NoRestClient
    /\ svc = NoSvc
    /\ policyCall = NoPolicyCall
    /\ service = NoService
    /\ mu = 0
    /\ threads = NoThreads
    /\ generic = newGenericStream
    /\ request = NoRequest

NextParse == Recv

SpecParse == InitParse /\ [][NextParse]_vars

\* bodies in which blank lines and line endings vary
BlankLines == {Blank, Data1, Data2, DataEmpty, Comment}

InitBlank ==
    /\ input \in [lines : SeqsUpTo(BlankLines, MaxLines), crlf : BOOLEAN, term : BOOLEAN]
    /\ ioErr = FALSE
    /\ NewStream
    /\ timer = NoTimer
    /\ wire = NoWire
    /\ call = NoCall
    /\ client = NoClient
    /\ restClient = NoRestClient
    /\ svc = NoSvc
    /\ policyCall = NoPolicyCall
    /\ service = NoService
    /\ mu = 0
    /\ threads = NoThreads
    /\ generic = newGenericStream
    /\ request = NoRequest

SpecBlank == InitBlank /\ [][NextParse]_vars

\* bodies read to their end
DrainLines == {Blank, Data1, DataEmpty}

InitDrain ==
    /\ input \in [lines : SeqsUpTo(DrainLines, MaxLifeLines), crlf : BOOLEAN, term : BOOLEAN]
    /\ ioErr = FALSE
    /\ NewStream
    /\ timer = NoTimer
    /\ wire = NoWire
    /\ call = NoCall
    /\ client = NoClient
    /\ restClient = NoRestClient
    /\ svc = NoSvc
    /\ policyCall = NoPolicyCall
    /\ service = NoService
    /\ mu = 0
    /\ threads = NoThreads
    /\ generic = newGenericStream
    /\ request = NoRequest

\* what a Recv call can return
RecvResults ==
    [item : 0..2,
     err : {NilErr, EOF, ErrStreamClosed, Canceled, DeadlineExceeded, ReadError,
            UnmarshalError}]

\* a Recv call returns: the caller has one more result.  Recv can be called
\* whenever Recv of this model can, and every Recv step is such a step.
RecvReturns ==
    /\ Len(results) < MaxRecv
    /\ \E x \in RecvResults : results' = Append(results, x)

\* a consumer that goes on calling Recv: a loop around Recv does not stop
\* between two calls, and Recv itself returns once the read returns
SpecDrain == InitDrain /\ [][NextParse]_vars /\ WF_results(RecvReturns)

(***************************************************************************)
(* Stream[T] and GenericStream[T] side by side                             *)
(***************************************************************************)
\* bodies given to both streams
EquivLines == {Blank, Data1, DataBad, Id7}

InitEquiv ==
    /\ input \in [lines : SeqsUpTo(EquivLines, MaxLifeLines), crlf : BOOLEAN, term : BOOLEAN]
    /\ ioErr \in BOOLEAN
    /\ NewStream
    /\ timer = NoTimer
    /\ wire = NoWire
    /\ call = NoCall
    /\ client = NoClient
    /\ restClient = NoRestClient
    /\ svc = NoSvc
    /\ policyCall = NoPolicyCall
    /\ service = NoService
    /\ mu = 0
    /\ threads = NoThreads
    /\ generic = newGenericStream
    /\ request = NoRequest

\* the GenericStream has received every call and context event the Stream has
InStep ==
    /\ Len(generic.results) = Len(results)
    /\ Len(generic.closeRets) = Len(closeRets)
    /\ (ctxErr = DeadlineExceeded) = (generic.ctxErr = DeadlineExceeded)

\* a call or a context event reaches the Stream, then the same one reaches the
\* GenericStream, whose body's Close reports what the Stream's body's did
NextEquiv ==
    \/ InStep /\ Recv
    \/ \E f \in BOOLEAN : InStep /\ Close(f)
    \/ InStep /\ CancelCtx(DeadlineExceeded)
    \/ Len(generic.results) < Len(results) /\ GenericRecv
    \/ /\ Len(generic.closeRets) < Len(closeRets)
       /\ GenericClose(closeRets[Len(generic.closeRets) + 1] = BodyCloseError)
    \/ ctxErr = DeadlineExceeded /\ GenericCancelCtx(DeadlineExceeded)

SpecEquiv == InitEquiv /\ [][NextEquiv]_vars

\* bodies with a payload whose decoding fails after a part of it was decoded
DataHalf == <<"d", "a", "t", "a", ":", "1", "x">>

ZeroLines == {Blank, Data1, DataHalf}

InitZero ==
    /\ input \in [lines : SeqsUpTo(ZeroLines, MaxLifeLines), crlf : {FALSE}, term : BOOLEAN]
    /\ ioErr \in BOOLEAN
    /\ NewStream
    /\ timer = NoTimer
    /\ wire = NoWire
    /\ call = NoCall
    /\ client = NoClient
    /\ restClient = NoRestClient
    /\ svc = NoSvc
    /\ policyCall = NoPolicyCall
    /\ service = NoService
    /\ mu = 0
    /\ threads = NoThreads
    /\ generic = newGenericStream
    /\ request = NoRequest

SpecZero == InitZero /\ [][NextEquiv]_vars

(***************************************************************************)
(* The client: options, configuration methods, service calls               *)
(***************************************************************************)
MaxOptions == 2

Keys == {"k1", "k2"}
Tokens == {"t1"}
Timeouts == {0, 5}
Policies == {DefaultRetryPolicy, CustomRetryPolicy}

Option(name, key, policy, timeout) ==
    [name |-> name, key |-> key, policy |-> policy, timeout |-> timeout, url |-> <<>>]

Options ==
    {Option(n, k, NoPolicy, 0) : n \in {"WithAPIKey", "WithAdminKey"}, k \in Keys}
    \cup {Option("WithBearerToken", t, NoPolicy, 0) : t \in Tokens}
    \cup {Option("WithRetryPolicy", "", p, 0) : p \in Policies}
    \cup {Option("WithTimeout", "", NoPolicy, t) : t \in Timeouts}

\* c.httpClient.Timeout = timeout: the field of the http.Client that
\* c.httpClient points to at this moment; a nil pointer makes it panic
setTimeout(c, timeout) ==
    IF c.httpClient = "nil" THEN [c EXCEPT !.panicked = TRUE]
    ELSE [c EXCEPT !.Timeout[c.httpClient] = timeout]

\* opt(c) for the option functions WithBaseURL ... WithRetryPolicy; the
\* option of WithHTTPClient names its http.Client in key
applyOption(c, o) ==
    IF c.panicked THEN c
    ELSE CASE o.name = "WithBaseURL" -> [c EXCEPT !.baseURL = o.url]
           [] o.name = "WithHTTPClient" -> [c EXCEPT !.httpClient = o.key]
           [] o.name = "WithAPIKey" -> [c EXCEPT !.auth = APIKeyAuthenticator(o.key)]
           [] o.name = "WithAdminKey" -> [c EXCEPT !.auth = AdminKeyAuthenticator(o.key)]
           [] o.name = "WithBearerToken" -> [c EXCEPT !.auth = BearerTokenAuthenticator(o.key)]
           [] o.name = "WithTimeout" -> setTimeout(c, o.timeout)
           [] o.name = "WithRetryPolicy" -> [c EXCEPT !.retryPolicy = o.policy]

RECURSIVE applyOptions(_, _)
applyOptions(c, options) ==
    IF options = <<>> THEN c
    ELSE applyOptions(applyOption(c, Head(options)), Tail(options))

\* "http://localhost:8080"
DefaultBaseURL ==
    <<"h", "t", "t", "p", ":", "/", "/", "l", "o", "c", "a", "l", "h", "o", "s", "t", ":",
      "8", "0", "8", "0">>

\* the caller's http.Client h is a plain &http.Client{}: no timeout
NewClient(options) ==
    applyOptions([auth |-> NilAuth, retryPolicy |-> NoPolicy, baseURL |-> DefaultBaseURL,
                  httpClient |-> "default",
                  Timeout |-> [default |-> DefaultTimeout, h |-> 0],
                  panicked |-> FALSE],
                 options)

\* the client's own configuration methods
WithAPIKey(key) ==
    /\ client' = [client EXCEPT !.auth = APIKeyAuthenticator(key)]
    /\ UNCHANGED <<streamVars, restVars, restClient, svc, policyCall>>
    /\ UNCHANGED <<service, concVars, generic, request>>

WithAdminKey(key) ==
    /\ client' = [client EXCEPT !.auth = AdminKeyAuthenticator(key)]
    /\ UNCHANGED <<streamVars, restVars, restClient, svc, policyCall>>
    /\ UNCHANGED <<service, concVars, generic, request>>

WithBearerToken(token) ==
    /\ client' = [client EXCEPT !.auth = BearerTokenAuthenticator(token)]
    /\ UNCHANGED <<streamVars, restVars, restClient, svc, policyCall>>
    /\ UNCHANGED <<service, concVars, generic, request>>

\* c.httpClient.Timeout = timeout: when the rest.Client holds the same
\* http.Client, it is changed for the rest.Client too
WithTimeout(timeout) ==
    /\ client' = setTimeout(client, timeout)
    /\ UNCHANGED <<streamVars, restVars, restClient, svc, policyCall>>
    /\ UNCHANGED <<service, concVars, generic, request>>

WithRetryPolicy(policy) ==
    /\ client' = [client EXCEPT !.retryPolicy = policy]
    /\ UNCHANGED <<streamVars, restVars, restClient, svc, policyCall>>
    /\ UNCHANGED <<service, concVars, generic, request>>

WithBaseURL(url) ==
    /\ client' = [client EXCEPT !.baseURL = url]
    /\ UNCHANGED <<streamVars, restVars, restClient, svc, policyCall>>
    /\ UNCHANGED <<service, concVars, generic, request>>

\* h names the http.Client handed over: "h", or "nil" for a nil pointer
WithHTTPClient(h) ==
    /\ client' = [client EXCEPT !.httpClient = h]
    /\ UNCHANGED <<streamVars, restVars, restClient, svc, policyCall>>
    /\ UNCHANGED <<service, concVars, generic, request>>

\* the rest.Client that getRestClient returns and caches
getRestClient ==
    IF ~restClient.made
    THEN New(client.baseURL, client.httpClient,
             IF client.auth # NilAuth THEN client.auth ELSE NoAuth)
    ELSE restClient

\* the service accessor Completions()
Completions ==
    /\ restClient' = getRestClient
    /\ service' = [kind |-> "completions", baseURL |-> client.baseURL]
    /\ UNCHANGED <<streamVars, restVars, client, svc, policyCall>>
    /\ UNCHANGED <<concVars, generic, request>>

\* the service accessor Chat()
Chat ==
    /\ restClient' = getRestClient
    /\ service' = [kind |-> "chat", baseURL |-> client.baseURL]
    /\ UNCHANGED <<streamVars, restVars, client, svc, policyCall>>
    /\ UNCHANGED <<concVars, generic, request>>

\* fmt.Errorf(wrap + ": %w", err), nil staying nil
Errorf(op, wrap, err, stream) ==
    [op |-> op, wrap |-> IF err = NoError THEN "" ELSE wrap, err |-> err, stream |-> stream,
     url |-> <<>>]

\* "v1/completions"
CompletionsEndpoint ==
    <<"v", "1", "/", "c", "o", "m", "p", "l", "e", "t", "i", "o", "n", "s">>

\* "v1/chat/completions"
ChatEndpoint ==
    <<"v", "1", "/", "c", "h", "a", "t", "/", "c", "o", "m", "p", "l", "e", "t", "i", "o", "n",
      "s">>

\* the http.Client Timeout in force for a request of the rest.Client
RequestTimeout ==
    IF restClient.httpClient \in DOMAIN client.Timeout
    THEN client.Timeout[restClient.httpClient] ELSE 0

\* the types of the errors that Unwrap walks through from the error v of a
\* service call: the fmt wrapper, the transport's error, the cause a
\* RequestError holds
ErrorChain(v) ==
    IF v.err = NoError THEN <<>>
    ELSE <<[pkg |-> "fmt", type |-> "wrapError"], [pkg |-> v.err.pkg, type |-> v.err.type]>>
         \o (IF v.err.type = "RequestError" /\ v.err.Err # ""
             THEN <<[pkg |-> "errors", type |-> "errorString"]>>
             ELSE <<>>)

\* errors.As(err, &target) for a target of type *pkg.type: none of the error
\* types has an As method, so the types have to be identical
As(v, pkg, type) ==
    \E i \in DOMAIN ErrorChain(v) : ErrorChain(v)[i] = [pkg |-> pkg, type |-> type]

\* completionsService.Create writing Stream = false into the caller's struct
CreateInPlace(reqFails, netFails, status, body, readFails, q) ==
    /\ service.kind = "completions"
    /\ restClient.made
    /\ \E r \in {DoResult("Post", "POST", TRUE, reqFails, netFails, status, body, readFails)} :
           /\ wire' = r.wire
           /\ call' = r.call
           /\ svc' = [Errorf("Create", "failed to create completion", r.call.err, FALSE)
                       EXCEPT !.url = BuildURL(restClient, CompletionsEndpoint)]
    /\ LET req == [q EXCEPT !.Stream = FALSE]
       IN  request' = [passed |-> q, req |-> req, json |-> MarshalCompletionRequest(req)]
    /\ UNCHANGED <<streamVars, client, restClient, policyCall>>
    /\ UNCHANGED <<service, concVars, generic>>

\* completionsService.Create on a service that an accessor returned; q is
\* the request that req points to
Create(reqFails, netFails, status, body, readFails, q) ==
    /\ service.kind = "completions"
    /\ restClient.made
    /\ \E r \in {DoResult("Post", "POST", TRUE, reqFails, netFails, status, body, readFails)} :
           /\ wire' = r.wire
           /\ call' = r.call
           /\ svc' = [Errorf("Create", "failed to create completion", r.call.err, FALSE)
                       EXCEPT !.url = BuildURL(restClient, CompletionsEndpoint)]
    /\ LET reqCopy == [q EXCEPT !.Stream = FALSE]
       IN  request' = [passed |-> q, req |-> q, json |-> MarshalCompletionRequest(reqCopy)]
    /\ UNCHANGED <<streamVars, client, restClient, policyCall>>
    /\ UNCHANGED <<service, concVars, generic>>

\* the stream that a streaming call returns over the body of a 2xx response,
\* which the http.Client's timer keeps covering
newStreamOver(resp, in) ==
    IF resp
    THEN /\ input' = in
         /\ ioErr' = FALSE
         /\ timer' = [state |-> IF RequestTimeout > 0 THEN "running" ELSE "off", avail |-> 0]
         /\ pos' = 0
         /\ closed' = FALSE
         /\ ctxErr' = NilErr
         /\ bodyCloses' = 0
         /\ results' = <<>>
         /\ event' = NoEvent
         /\ closeRets' = <<>>
         /\ ret' = [op |-> "New", err |-> NilErr, item |-> 0, flag |-> FALSE]
    ELSE UNCHANGED streamVars

\* completionsService.CreateStream: a 2xx response becomes a new stream over
\* its body
CreateStream(reqFails, netFails, status, body, readFails, in, q) ==
    /\ service.kind = "completions"
    /\ restClient.made
    /\ \E r \in {DoRawResult("POST", reqFails, netFails, status, body, readFails)} :
           /\ wire' = r.wire
           /\ call' = r.call
           /\ svc' = [Errorf("CreateStream", "failed to create completion stream",
                             r.call.err, r.call.resp)
                       EXCEPT !.url = service.baseURL \o <<"/">>
                                      \o TrimLeftSlash(CompletionsEndpoint)]
           /\ newStreamOver(r.call.resp, in)
    /\ LET reqCopy == [q EXCEPT !.Stream = TRUE]
       IN  request' = [passed |-> q, req |-> q, json |-> MarshalCompletionRequest(reqCopy)]
    /\ UNCHANGED <<client, restClient, policyCall>>
    /\ UNCHANGED <<service, concVars, generic>>

\* chatService.Create
ChatCreate(reqFails, netFails, status, body, readFails, q) ==
    /\ service.kind = "chat"
    /\ restClient.made
    /\ \E r \in {DoResult("Post", "POST", TRUE, reqFails, netFails, status, body, readFails)} :
           /\ wire' = r.wire
           /\ call' = r.call
           /\ svc' = [Errorf("ChatCreate", "failed to create chat completion", r.call.err,
                             FALSE)
                       EXCEPT !.url = BuildURL(restClient, ChatEndpoint)]
    /\ LET reqCopy == [q EXCEPT !.Stream = FALSE]
       IN  request' = [passed |-> q, req |-> q, json |-> MarshalChatRequest(reqCopy)]
    /\ UNCHANGED <<streamVars, client, restClient, policyCall>>
    /\ UNCHANGED <<service, concVars, generic>>

\* chatService.CreateStream
ChatCreateStream(reqFails, netFails, status, body, readFails, in, q) ==
    /\ service.kind = "chat"
    /\ restClient.made
    /\ \E r \in {DoRawResult("POST", reqFails, netFails, status, body, readFails)} :
           /\ wire' = r.wire
           /\ call' = r.call
           /\ svc' = [Errorf("ChatCreateStream", "failed to create chat completion stream",
                             r.call.err, r.call.resp)
                       EXCEPT !.url = service.baseURL \o <<"/">> \o TrimLeftSlash(ChatEndpoint)]
           /\ newStreamOver(r.call.resp, in)
    /\ LET reqCopy == [q EXCEPT !.Stream = TRUE]
       IN  request' = [passed |-> q, req |-> q, json |-> MarshalChatRequest(reqCopy)]
    /\ UNCHANGED <<client, restClient, policyCall>>
    /\ UNCHANGED <<service, concVars, generic>>

\* the http.Client's timer fires while the body is still being read, when
\* all of it has arrived or nothing beyond what was read; closing the body
\* stops the timer
TimeoutExpires(all) ==
    /\ timer.state = "running"
    /\ bodyCloses = 0
    /\ \A i \in DOMAIN results : results[i].err # EOF
    /\ timer' = [state |-> "expired",
                 avail |-> IF all THEN Len(BodyOf(input)) ELSE pos]
    /\ UNCHANGED <<input, ioErr, pos, closed, ctxErr, bodyCloses, results, event, closeRets, ret>>
    /\ UNCHANGED <<restVars, configVars>>
    /\ UNCHANGED <<concVars, generic, request>>

\* the outcomes of a request that the client specifications follow
ClientOutcomes ==
    {o \in Outcomes :
        /\ ~o.readFails
        /\ o.status \in {0, 200, 404, 429, 503}
        /\ o.body \in {EmptyBody,
                        Doc("[1]", "array", ScAbsent, "absent", "", "")}}

\* the bodies of the streaming responses
CallBodies == {<<Data1, Blank>>, <<Data1, Blank, Data1, Blank>>}

CallInputs == [lines : CallBodies, crlf : {FALSE}, term : {TRUE}]

InitClient ==
    /\ input = [lines |-> <<>>, crlf |-> FALSE, term |-> TRUE]
    /\ ioErr = FALSE
    /\ NewStream
    /\ timer = NoTimer
    /\ wire = NoWire
    /\ call = NoCall
    /\ client \in {NewClient(options) : options \in SeqsUpTo(Options, MaxOptions)}
    /\ restClient = NoRestClient
    /\ svc = NoSvc
    /\ policyCall = NoPolicyCall
    /\ service = NoService
    /\ mu = 0
    /\ threads = NoThreads
    /\ generic = newGenericStream
    /\ request = NoRequest

NextClient ==
    \/ \E key \in Keys : WithAPIKey(key)
    \/ \E key \in Keys : WithAdminKey(key)
    \/ \E token \in Tokens : WithBearerToken(token)
    \/ \E timeout \in Timeouts : WithTimeout(timeout)
    \/ \E policy \in Policies : WithRetryPolicy(policy)
    \/ Completions
    \/ \E o \in ClientOutcomes : Create(o.reqFails, o.netFails, o.status, o.body, o.readFails, PlainRequest)
    \/ \E o \in ClientOutcomes, in \in CallInputs :
          CreateStream(o.reqFails, o.netFails, o.status, o.body, o.readFails, in, PlainRequest)

SpecClient == InitClient /\ [][NextClient]_vars

(***************************************************************************)
(* The requests of the completions and chat services                       *)
(***************************************************************************)
InitService ==
    /\ input = [lines |-> <<>>, crlf |-> FALSE, term |-> TRUE]
    /\ ioErr = FALSE
    /\ NewStream
    /\ timer = NoTimer
    /\ wire = NoWire
    /\ call = NoCall
    /\ client = NewClient(<<>>)
    /\ restClient = NoRestClient
    /\ svc = NoSvc
    /\ policyCall = NoPolicyCall
    /\ service = NoService
    /\ mu = 0
    /\ threads = NoThreads
    /\ generic = newGenericStream
    /\ request = NoRequest

NextService ==
    \/ Completions
    \/ Chat
    \/ \E o \in ClientOutcomes, q \in Requests :
          Create(o.reqFails, o.netFails, o.status, o.body, o.readFails, q)
    \/ \E o \in ClientOutcomes, in \in CallInputs, q \in Requests :
          CreateStream(o.reqFails, o.netFails, o.status, o.body, o.readFails, in, q)
    \/ \E o \in ClientOutcomes, q \in Requests :
          ChatCreate(o.reqFails, o.netFails, o.status, o.body, o.readFails, q)
    \/ \E o \in ClientOutcomes, in \in CallInputs, q \in Requests :
          ChatCreateStream(o.reqFails, o.netFails, o.status, o.body, o.readFails, in, q)

SpecService == InitService /\ [][NextService]_vars

(***************************************************************************)
(* Service accessors called from several goroutines                        *)
(***************************************************************************)
Accessors == {"Completions", "Chat"}

\* goroutine t calls an accessor, which calls getRestClient
CallAccessor(t, accessor) ==
    /\ threads[t].pc = "idle"
    /\ threads' = [threads EXCEPT ![t].pc = accessor \o ":check"]
    /\ UNCHANGED <<streamVars, restVars, configVars, mu, generic, request>>

\* getRestClient: if c.restClient == nil; no lock is held
getRestClientCheck(t) ==
    /\ \E a \in Accessors :
          /\ threads[t].pc = a \o ":check"
          /\ threads' = [threads EXCEPT
                            ![t].pc = IF restClient.made THEN a \o ":return" ELSE a \o ":new"]
    /\ UNCHANGED <<streamVars, restVars, configVars, mu, generic, request>>

\* getRestClient: c.restClient = rest.New(...), one more rest.Client object
getRestClientNew(t) ==
    /\ \E a \in Accessors :
          /\ threads[t].pc = a \o ":new"
          /\ threads' = [threads EXCEPT ![t].pc = a \o ":return"]
    /\ restClient' = [New(client.baseURL, client.httpClient,
                          IF client.auth # NilAuth THEN client.auth ELSE NoAuth)
                        EXCEPT !.id = restClient.id + 1]
    /\ UNCHANGED <<streamVars, restVars, client, svc, policyCall, service, mu, generic, request>>

\* getRestClient: return c.restClient, and the accessor returns a service
\* bound to it; got collects the rest.Client objects of the goroutine's services
AccessorReturn(t) ==
    /\ \E a \in Accessors :
          /\ threads[t].pc = a \o ":return"
          /\ service' = [kind |-> IF a = "Chat" THEN "chat" ELSE "completions",
                         baseURL |-> client.baseURL]
    /\ threads' = [threads EXCEPT ![t].pc = "idle", ![t].got = @ \cup {restClient.id}]
    /\ UNCHANGED <<streamVars, restVars, client, restClient, svc, policyCall, mu, generic,
                   request>>

InitAccess ==
    /\ input = [lines |-> <<>>, crlf |-> FALSE, term |-> TRUE]
    /\ ioErr = FALSE
    /\ NewStream
    /\ timer = NoTimer
    /\ wire = NoWire
    /\ call = NoCall
    /\ client \in {NewClient(options) : options \in SeqsUpTo(Options, 1)}
    /\ restClient = NoRestClient
    /\ svc = NoSvc
    /\ policyCall = NoPolicyCall
    /\ service = NoService
    /\ mu = 0
    /\ threads = NoThreads
    /\ generic = newGenericStream
    /\ request = NoRequest

NextAccess ==
    \/ \E t \in Threads, a \in Accessors : CallAccessor(t, a)
    \/ \E t \in Threads : getRestClientCheck(t)
    \/ \E t \in Threads : getRestClientNew(t)
    \/ \E t \in Threads : AccessorReturn(t)

SpecAccess == InitAccess /\ [][NextAccess]_vars

(***************************************************************************)
(* Construction and reconfiguration of a client                            *)
(***************************************************************************)
\* base URLs: a host, the same with a trailing slash, another host
BaseURLs == {<<"h">>, <<"h", "/">>, <<"g">>}

HTTPClients == {"h", "nil"}

ConfigOptions ==
    {[Option("WithBaseURL", "", NoPolicy, 0) EXCEPT !.url = u] : u \in {<<"h">>, <<"g">>}}
    \cup {Option("WithHTTPClient", h, NoPolicy, 0) : h \in HTTPClients}
    \cup {Option("WithTimeout", "", NoPolicy, t) : t \in Timeouts}
    \cup {Option("WithAPIKey", "k1", NoPolicy, 0), Option("WithBearerToken", "t1", NoPolicy, 0)}

InitOptions ==
    /\ input = [lines |-> <<>>, crlf |-> FALSE, term |-> TRUE]
    /\ ioErr = FALSE
    /\ NewStream
    /\ timer = NoTimer
    /\ wire = NoWire
    /\ call = NoCall
    /\ client \in {NewClient(options) : options \in SeqsUpTo(ConfigOptions, MaxOptions)}
    /\ restClient = NoRestClient
    /\ svc = NoSvc
    /\ policyCall = NoPolicyCall
    /\ service = NoService
    /\ mu = 0
    /\ threads = NoThreads
    /\ generic = newGenericStream
    /\ request = NoRequest

NextOptions ==
    \/ \E url \in {<<"h">>, <<"g">>} : WithBaseURL(url)
    \/ \E h \in HTTPClients : WithHTTPClient(h)
    \/ \E timeout \in Timeouts : WithTimeout(timeout)
    \/ WithAPIKey("k1")
    \/ WithBearerToken("t1")

SpecOptions == InitOptions /\ [][NextOptions]_vars

(***************************************************************************)
(* The URLs of the service calls                                           *)
(***************************************************************************)
\* the outcomes of a request that are followed: no answer, 200, 503
URLOutcomes ==
    {o \in ClientOutcomes : o.body = EmptyBody /\ o.status \in {0, 200, 503} /\ ~o.reqFails}

URLInputs == [lines : {<<Data1, Blank>>}, crlf : {FALSE}, term : {TRUE}]

InitURL ==
    /\ input = [lines |-> <<>>, crlf |-> FALSE, term |-> TRUE]
    /\ ioErr = FALSE
    /\ NewStream
    /\ timer = NoTimer
    /\ wire = NoWire
    /\ call = NoCall
    /\ client \in {NewClient(options) :
                      options \in SeqsUpTo({o \in ConfigOptions : o.name = "WithBaseURL"}, 1)}
    /\ restClient = NoRestClient
    /\ svc = NoSvc
    /\ policyCall = NoPolicyCall
    /\ service = NoService
    /\ mu = 0
    /\ threads = NoThreads
    /\ generic = newGenericStream
    /\ request = NoRequest

NextURL ==
    \/ \E url \in BaseURLs : WithBaseURL(url)
    \/ Completions
    \/ \E o \in URLOutcomes : Create(o.reqFails, o.netFails, o.status, o.body, o.readFails, PlainRequest)
    \/ \E o \in URLOutcomes, in \in URLInputs :
          CreateStream(o.reqFails, o.netFails, o.status, o.body, o.readFails, in, PlainRequest)

SpecURL == InitURL /\ [][NextURL]_vars

(***************************************************************************)
(* A streaming call and the stream it returns                              *)
(***************************************************************************)
\* the outcomes of a streaming request that are followed
StreamOutcomes == {o \in ClientOutcomes : o.body = EmptyBody /\ o.status \in {0, 200, 503}}

InitCall ==
    /\ input = [lines |-> <<>>, crlf |-> FALSE, term |-> TRUE]
    /\ ioErr = FALSE
    /\ NewStream
    /\ timer = NoTimer
    /\ wire = NoWire
    /\ call = NoCall
    /\ client \in {NewClient(options) :
                      options \in SeqsUpTo({o \in Options : o.name = "WithTimeout"}, 1)}
    /\ restClient = NoRestClient
    /\ svc = NoSvc
    /\ policyCall = NoPolicyCall
    /\ service = NoService
    /\ mu = 0
    /\ threads = NoThreads
    /\ generic = newGenericStream
    /\ request = NoRequest

NextCall ==
    \/ \E timeout \in Timeouts : WithTimeout(timeout)
    \/ Completions
    \/ \E o \in StreamOutcomes, in \in CallInputs :
          CreateStream(o.reqFails, o.netFails, o.status, o.body, o.readFails, in, PlainRequest)
    \/ \E all \in BOOLEAN : TimeoutExpires(all)
    \/ Recv
    \/ \E f \in BOOLEAN : Close(f)
    \/ \E e \in {Canceled, DeadlineExceeded} : CancelCtx(e)

SpecCall == InitCall /\ [][NextCall]_vars

(***************************************************************************)
(* ReadStream                                                              *)
(***************************************************************************)
\* &tabby.APIError{StatusCode: status, Message: message}
TabbyAPIError(status, message) ==
    [pkg |-> "tabby", type |-> "APIError", StatusCode |-> status,
     Message |-> message, Err |-> ""]

\* fmt.Sprintf("unexpected status code: %d, body: %s", status, body)
UnexpectedStatus(status, body) ==
    "unexpected status code: " \o ToString(status) \o ", body: " \o body

\* ReadStream making a stream of every 2xx response
ReadStreamAny2xx(status, body, in) ==
    /\ IF status < 200 \/ status >= 300
       THEN /\ wire' = [NoWire EXCEPT !.hasResp = TRUE, !.status = status, !.body = body,
                                      !.bodyRead = TRUE, !.bodyClosed = TRUE]
            /\ svc' = [op |-> "ReadStream", wrap |-> "",
                       err |-> TabbyAPIError(status, UnexpectedStatus(status, body.raw)),
                       stream |-> FALSE, url |-> <<>>]
            /\ UNCHANGED streamVars
       ELSE /\ wire' = [NoWire EXCEPT !.hasResp = TRUE, !.status = status, !.body = body]
            /\ svc' = [op |-> "ReadStream", wrap |-> "", err |-> NoError, stream |-> TRUE,
                       url |-> <<>>]
            /\ input' = in
            /\ ioErr' = FALSE
            /\ timer' = NoTimer
            /\ pos' = 0
            /\ closed' = FALSE
            /\ ctxErr' = NilErr
            /\ bodyCloses' = 0
            /\ results' = <<>>
            /\ event' = NoEvent
            /\ closeRets' = <<>>
            /\ ret' = [op |-> "New", err |-> NilErr, item |-> 0, flag |-> FALSE]
    /\ UNCHANGED <<call, client, restClient, policyCall>>
    /\ UNCHANGED <<service, concVars, generic, request>>

\* ReadStream(ctx, resp) for a response with this status; body is what
\* io.ReadAll returns of an error response (its error is dropped), in the
\* SSE body of a 200 response
ReadStream(status, body, in) ==
    /\ IF status # 200
       THEN /\ wire' = [NoWire EXCEPT !.hasResp = TRUE, !.status = status, !.body = body,
                                      !.bodyRead = TRUE, !.bodyClosed = TRUE]
            /\ svc' = [op |-> "ReadStream", wrap |-> "",
                       err |-> TabbyAPIError(status, UnexpectedStatus(status, body.raw)),
                       stream |-> FALSE, url |-> <<>>]
            /\ UNCHANGED streamVars
       ELSE /\ wire' = [NoWire EXCEPT !.hasResp = TRUE, !.status = status, !.body = body]
            /\ svc' = [op |-> "ReadStream", wrap |-> "", err |-> NoError, stream |-> TRUE,
                       url |-> <<>>]
            /\ input' = in
            /\ ioErr' = FALSE
            /\ timer' = NoTimer
            /\ pos' = 0
            /\ closed' = FALSE
            /\ ctxErr' = NilErr
            /\ bodyCloses' = 0
            /\ results' = <<>>
            /\ event' = NoEvent
            /\ closeRets' = <<>>
            /\ ret' = [op |-> "New", err |-> NilErr, item |-> 0, flag |-> FALSE]
    /\ UNCHANGED <<call, client, restClient, policyCall>>
    /\ UNCHANGED <<service, concVars, generic, request>>

\* the texts of the error responses handed to ReadStream
ReadBodies == {EmptyBody, Doc("error", "text", ScAbsent, "absent", "", "")}

InitRead ==
    /\ input = [lines |-> <<>>, crlf |-> FALSE, term |-> TRUE]
    /\ ioErr = FALSE
    /\ NewStream
    /\ timer = NoTimer
    /\ wire = NoWire
    /\ call = NoCall
    /\ client = NoClient
    /\ restClient = NoRestClient
    /\ svc = NoSvc
    /\ policyCall = NoPolicyCall
    /\ service = NoService
    /\ mu = 0
    /\ threads = NoThreads
    /\ generic = newGenericStream
    /\ request = NoRequest

NextRead ==
    \/ \E status \in Statuses, body \in ReadBodies, in \in CallInputs :
          ReadStream(status, body, in)
    \/ svc.stream /\ Recv
    \/ svc.stream /\ \E f \in BOOLEAN : Close(f)
    \/ svc.stream /\ \E e \in {Canceled, DeadlineExceeded} : CancelCtx(e)

SpecRead == InitRead /\ [][NextRead]_vars

(***************************************************************************)
(* One stream shared by several goroutines                                 *)
(***************************************************************************)
\* the number of Recv calls that were made: returned ones and those under way
RecvCalls ==
    Len(results) + Cardinality({t \in Threads : threads[t].pc \in {"Recv:Lock", "Recv:Read"}})

CloseCalls ==
    Len(closeRets) + Cardinality({t \in Threads : threads[t].pc = "Close:Lock"})

\* goroutine t calls Recv and comes to s.mu.Lock()
CallRecv(t) ==
    /\ threads[t].pc = "idle"
    /\ RecvCalls < MaxRecv
    /\ threads' = [threads EXCEPT ![t].pc = "Recv:Lock"]
    /\ UNCHANGED <<streamVars, restVars, configVars, mu, generic, request>>

\* Recv returning (item, err) to goroutine t; the deferred Unlock runs
RecvReturn(t, item, err) ==
    /\ results' = Append(results, [item |-> item, err |-> err])
    /\ ret' = [op |-> "Recv", err |-> err, item |-> item, flag |-> FALSE]
    /\ threads' = [threads EXCEPT ![t] = [pc |-> "idle", buffer |-> <<>>,
                                          got |-> @.got \cup {Len(results) + 1}]]
    /\ mu' = 0

\* RecvLock going on without the mutex
RecvLockFree(t) ==
    /\ threads[t].pc = "Recv:Lock"
    /\ IF closed
       THEN RecvReturn(t, 0, ErrStreamClosed)
       ELSE IF ctxErr # NilErr
       THEN RecvReturn(t, 0, ctxErr)
       ELSE /\ mu' = t
            /\ threads' = [threads EXCEPT ![t].pc = "Recv:Read", ![t].buffer = <<>>]
            /\ UNCHANGED <<results, ret>>
    /\ UNCHANGED <<input, ioErr, pos, closed, ctxErr, bodyCloses, event, closeRets, timer>>
    /\ UNCHANGED <<restVars, configVars, generic, request>>

\* Recv of goroutine t from s.mu.Lock() to the call of readEvent: it gets
\* the mutex when no goroutine holds it, and returns at once when the stream
\* is closed or the context is done
RecvLock(t) ==
    /\ threads[t].pc = "Recv:Lock"
    /\ mu = 0
    /\ IF closed
       THEN RecvReturn(t, 0, ErrStreamClosed)
       ELSE IF ctxErr # NilErr
       THEN RecvReturn(t, 0, ctxErr)
       ELSE /\ mu' = t
            /\ threads' = [threads EXCEPT ![t].pc = "Recv:Read", ![t].buffer = <<>>]
            /\ UNCHANGED <<results, ret>>
    /\ UNCHANGED <<input, ioErr, pos, closed, ctxErr, bodyCloses, event, closeRets, timer>>
    /\ UNCHANGED <<restVars, configVars, generic, request>>

\* the rest of Recv once readEvent has the event's text in buffer
RecvParsed(t, buffer) ==
    LET ev == parseEvent(buffer)
        u == Unmarshal(ev.data)
    IN  /\ event' = ev
        /\ IF u.ok THEN RecvReturn(t, u.item, NilErr) ELSE RecvReturn(t, 0, UnmarshalError)

\* one turn of readEvent's loop in goroutine t: the blocking ReadString
\* returns, and the loop goes on or Recv returns
RecvRead(t) ==
    /\ threads[t].pc = "Recv:Read"
    /\ LET r == ReadString(Delivered, pos, ReadFails)
           buffer == threads[t].buffer
       IN  /\ pos' = r.pos
           /\ IF r.err # "nil"
              THEN IF r.err = "EOF"
                   THEN IF Len(buffer) > 0
                        THEN RecvParsed(t, buffer)
                        ELSE RecvReturn(t, 0, EOF) /\ UNCHANGED event
                   ELSE RecvReturn(t, 0, ReadError) /\ UNCHANGED event
              ELSE IF r.line = <<LF>> \/ r.line = <<CR, LF>>
                   THEN IF Len(buffer) > 0
                        THEN RecvParsed(t, buffer)
                        ELSE UNCHANGED <<results, ret, event, threads, mu>>
                   ELSE /\ threads' = [threads EXCEPT ![t].buffer = buffer \o r.line]
                        /\ UNCHANGED <<results, ret, event, mu>>
    /\ UNCHANGED <<input, ioErr, closed, ctxErr, bodyCloses, closeRets, timer>>
    /\ UNCHANGED <<restVars, configVars, generic, request>>

\* goroutine t calls Close and comes to s.mu.Lock()
CallClose(t) ==
    /\ threads[t].pc = "idle"
    /\ CloseCalls < MaxClose
    /\ threads' = [threads EXCEPT ![t].pc = "Close:Lock"]
    /\ UNCHANGED <<streamVars, restVars, configVars, mu, generic, request>>

\* CloseLock going on without the mutex
CloseLockFree(t, bodyFails) ==
    /\ threads[t].pc = "Close:Lock"
    /\ IF closed
       THEN /\ closeRets' = Append(closeRets, NilErr)
            /\ ret' = [op |-> "Close", err |-> NilErr, item |-> 0, flag |-> FALSE]
            /\ UNCHANGED <<closed, ctxErr, bodyCloses>>
       ELSE LET e == IF bodyFails THEN BodyCloseError ELSE NilErr
            IN  /\ closed' = TRUE
                /\ ctxErr' = IF ctxErr = NilErr THEN Canceled ELSE ctxErr
                /\ bodyCloses' = bodyCloses + 1
                /\ closeRets' = Append(closeRets, e)
                /\ ret' = [op |-> "Close", err |-> e, item |-> 0, flag |-> FALSE]
    /\ threads' = [threads EXCEPT ![t].pc = "idle"]
    /\ UNCHANGED <<input, ioErr, pos, results, event, timer, mu>>
    /\ UNCHANGED <<restVars, configVars, generic, request>>

\* Close of goroutine t from s.mu.Lock() to its return: the whole body runs
\* with the mutex held, which it gets when no goroutine holds it
CloseLock(t, bodyFails) ==
    /\ threads[t].pc = "Close:Lock"
    /\ mu = 0
    /\ IF closed
       THEN /\ closeRets' = Append(closeRets, NilErr)
            /\ ret' = [op |-> "Close", err |-> NilErr, item |-> 0, flag |-> FALSE]
            /\ UNCHANGED <<closed, ctxErr, bodyCloses>>
       ELSE LET e == IF bodyFails THEN BodyCloseError ELSE NilErr
            IN  /\ closed' = TRUE
                /\ ctxErr' = IF ctxErr = NilErr THEN Canceled ELSE ctxErr
                /\ bodyCloses' = bodyCloses + 1
                /\ closeRets' = Append(closeRets, e)
                /\ ret' = [op |-> "Close", err |-> e, item |-> 0, flag |-> FALSE]
    /\ threads' = [threads EXCEPT ![t].pc = "idle"]
    /\ UNCHANGED <<input, ioErr, pos, results, event, timer, mu>>
    /\ UNCHANGED <<restVars, configVars, generic, request>>

\* IsClosed of an idle goroutine: it reads the flag with the mutex held
IsClosedLock(t) ==
    /\ threads[t].pc = "idle"
    /\ mu = 0
    /\ ret' = [op |-> "IsClosed", err |-> NilErr, item |-> 0, flag |-> closed]
    /\ UNCHANGED <<input, ioErr, pos, closed, ctxErr, bodyCloses, results, event, closeRets,
                   timer>>
    /\ UNCHANGED <<restVars, configVars, concVars, generic, request>>

\* the bodies that the goroutines read together
ConcBodies ==
    {<<Data1, Blank, Data2, Blank>>,
     <<Blank, Data1, Blank, Blank, Data2>>,
     <<DataBad, Blank, Data1, Blank>>}

InitConc ==
    /\ input \in [lines : ConcBodies, crlf : BOOLEAN, term : {TRUE}]
    /\ ioErr = FALSE
    /\ NewStream
    /\ timer = NoTimer
    /\ wire = NoWire
    /\ call = NoCall
    /\ client = NoClient
    /\ restClient = NoRestClient
    /\ svc = NoSvc
    /\ policyCall = NoPolicyCall
    /\ service = NoService
    /\ mu = 0
    /\ threads = NoThreads
    /\ generic = newGenericStream
    /\ request = NoRequest

NextConc ==
    \/ \E t \in Threads : CallRecv(t)
    \/ \E t \in Threads : RecvLock(t)
    \/ \E t \in Threads : RecvRead(t)
    \/ \E t \in Threads : CallClose(t)
    \/ \E t \in Threads, f \in BOOLEAN : CloseLock(t, f)
    \/ \E t \in Threads : IsClosedLock(t)
    \/ \E e \in {Canceled, DeadlineExceeded} : CancelCtx(e)

SpecConc == InitConc /\ [][NextConc]_vars

(***************************************************************************)
(* Calls of a RetryPolicy                                                  *)
(***************************************************************************)
MaxAttempts == 6

PolicyErrs == {"", "dial tcp", "context deadline exceeded"}

PolicyResps == {NoResp} \cup {Resp(s) : s \in Statuses}

\* (*SimpleRetryPolicy).ShouldRetry
ShouldRetry(p, resp, err) ==
    /\ LET r == RetryableFunc(p, resp, err)
       IN  policyCall' = [NoPolicyCall EXCEPT !.policy = p.name, !.op = "ShouldRetry",
                                             !.resp = resp, !.err = err,
                                             !.panics = r.panics, !.value = r.value]
    /\ UNCHANGED <<streamVars, restVars, client, restClient, svc>>
    /\ UNCHANGED <<service, concVars, generic, request>>

\* (*SimpleRetryPolicy).RetryDelay; jitter is what rand.Int63n returns in
\* the custom policy's function
RetryDelay(p, attempts, jitter) ==
    /\ policyCall' = [NoPolicyCall EXCEPT !.policy = p.name, !.op = "RetryDelay",
                                          !.attempts = attempts,
                                          !.delay = RetryDelayFunc(p, attempts, jitter)]
    /\ UNCHANGED <<streamVars, restVars, client, restClient, svc>>
    /\ UNCHANGED <<service, concVars, generic, request>>

\* (*SimpleRetryPolicy).MaxRetries
MaxRetries(p) ==
    /\ policyCall' = [NoPolicyCall EXCEPT !.policy = p.name, !.op = "MaxRetries",
                                          !.count = p.MaxRetryCount]
    /\ UNCHANGED <<streamVars, restVars, client, restClient, svc>>
    /\ UNCHANGED <<service, concVars, generic, request>>

InitPolicy ==
    /\ input = [lines |-> <<>>, crlf |-> FALSE, term |-> TRUE]
    /\ ioErr = FALSE
    /\ NewStream
    /\ timer = NoTimer
    /\ wire = NoWire
    /\ call = NoCall
    /\ client = NoClient
    /\ restClient = NoRestClient
    /\ svc = NoSvc
    /\ policyCall = NoPolicyCall
    /\ service = NoService
    /\ mu = 0
    /\ threads = NoThreads
    /\ generic = newGenericStream
    /\ request = NoRequest

NextPolicy ==
    \E p \in Policies :
        \/ \E resp \in PolicyResps, err \in PolicyErrs : ShouldRetry(p, resp, err)
        \/ \E attempts \in 0..MaxAttempts, jitter \in Jitters : RetryDelay(p, attempts, jitter)
        \/ MaxRetries(p)

SpecPolicy == InitPolicy /\ [][NextPolicy]_vars

(***************************************************************************)
(* The structure of a body, read off the lines it was produced from        *)
(***************************************************************************)
IsDataLine(l) == l \in {Data1, Data2, DataBad, DataEmpty}
IsValidData(l) == l \in {Data1, Data2}
IsFieldLine(l) == l \in {Data1, Data2, Id7, EventE}

\* the number the JSON text of a valid data line denotes
DataItem(l) == IF l = Data1 THEN 1 ELSE 2

\* the value of a data: line, trimmed
DataText(l) ==
    IF l = Data1 THEN <<"1">> ELSE IF l = Data2 THEN <<"2">>
    ELSE IF l = DataBad THEN <<"x">> ELSE <<>>

FirstBlank(lines) ==
    LET hits == {i \in 1..Len(lines) : lines[i] = Blank}
    IN  IF hits = {} THEN 0 ELSE Min(hits)

\* field lines of one well-formed event: one data: line with valid JSON,
\* optionally id: and event: lines
WellFormedEvent(g) ==
    /\ g # <<>>
    /\ \A i \in 1..Len(g) : IsFieldLine(g[i])
    /\ Cardinality({i \in 1..Len(g) : IsValidData(g[i])}) = 1

\* a sequence of well-formed events, each followed by one blank line
RECURSIVE WellFormed(_)
WellFormed(lines) ==
    IF lines = <<>> THEN TRUE
    ELSE LET i == FirstBlank(lines)
         IN  /\ i > 1
             /\ WellFormedEvent(SubSeq(lines, 1, i - 1))
             /\ WellFormed(SubSeq(lines, i + 1, Len(lines)))

ExpectedItems(lines) ==
    LET ds == SelectSeq(lines, IsValidData)
    IN  [k \in 1..Len(ds) |-> DataItem(ds[k])]

\* offset of the first character of line j; line Len+1 starts at the end of the body
LineStart(in, j) ==
    IF j > Len(in.lines) THEN Len(BodyOf(in))
    ELSE Len(Render(SubSeq(in.lines, 1, j - 1), EOL(in), TRUE))

RECURSIVE SkipBlank(_, _)
SkipBlank(lines, j) ==
    IF j <= Len(lines) /\ lines[j] = Blank THEN SkipBlank(lines, j + 1) ELSE j

RECURSIVE SkipFields(_, _)
SkipFields(lines, j) ==
    IF j <= Len(lines) /\ lines[j] # Blank THEN SkipFields(lines, j + 1) ELSE j

\* index of the first line after the event that starts at or after line j:
\* leading blank lines, the event's lines and the one blank line that ends it
EventEnd(lines, j) ==
    LET k == SkipFields(lines, SkipBlank(lines, j))
    IN  IF k <= Len(lines) THEN k + 1 ELSE Len(lines) + 1

\* the body made of lines j.. of the input
Suffix(in, j) == [in EXCEPT !.lines = SubSeq(in.lines, j, Len(in.lines))]

IsRecvStep == Len(results') = Len(results) + 1
IsCloseStep == Len(closeRets') = Len(closeRets) + 1

\* what the next Recv of an open, uncancelled stream would return at offset p
NextResult(in, p) ==
    LET r == RecvStep(BodyOf(in), p, ioErr, FALSE, NilErr)
    IN  [item |-> r.item, err |-> r.err]

(***************************************************************************)
(* Claims                                                                  *)
(***************************************************************************)

\* C1: for a body of N >= 0 well-formed events, each ended by a blank line,
\* the k-th Recv of a fresh stream returns the k-th item with a nil error for
\* k <= N, and Recv number N+1 returns io.EOF.
C1_ItemsInOrderThenEOF ==
    (WellFormed(input.lines) /\ input.term) =>
        LET exp == ExpectedItems(input.lines)
        IN  \A k \in 1..Len(results) :
                /\ k <= Len(exp) => results[k] = [item |-> exp[k], err |-> NilErr]
                /\ k = Len(exp) + 1 => results[k].err = EOF

C1_Witness ==
    /\ WellFormed(input.lines) /\ input.term
    /\ Len(ExpectedItems(input.lines)) = 2
    /\ Len(results) = 3
    /\ results[1].item # results[2].item
    /\ results[3].err = EOF

C3_CloseIdempotent ==
    [][IsCloseStep =>
        IF closeRets = <<>>
        THEN closed' /\ ctxErr' # NilErr /\ bodyCloses = 0 /\ bodyCloses' = 1
        ELSE /\ ret'.err = NilErr
             /\ bodyCloses' = bodyCloses /\ bodyCloses' = 1
             /\ closed' /\ ctxErr' = ctxErr]_vars

C3_Witness ==
    /\ Len(closeRets) = 2
    /\ closeRets[1] = BodyCloseError
    /\ ret.op = "Close" /\ ret.err = NilErr
    /\ bodyCloses = 1

\* C4: a Recv on a stream that is not closed and whose context is done
\* returns the context's error, whatever is left unread in the body.
C4_CancelledRecvReturnsCtxErr ==
    [][(IsRecvStep /\ ~closed /\ ctxErr # NilErr) =>
        /\ ret'.err = ctxErr
        /\ ret'.err \in {Canceled, DeadlineExceeded}
        /\ results'[Len(results')].err = ctxErr]_vars

\* two Recv calls in a row return context.Canceled while an event is unread
C4_Witness ==
    /\ ~closed /\ ctxErr = Canceled
    /\ Len(results) >= 2
    /\ results[Len(results)].err = Canceled
    /\ results[Len(results) - 1].err = Canceled
    /\ NextResult(input, pos).err = NilErr

\* C5: a Recv whose event does not decode returns a StreamError, leaves the
\* stream open and the body unclosed, and has read exactly one event: the
\* reader stands at the first line after that event's blank line, so the next
\* Recv returns what a stream over the rest of the body would return.
C5_DecodeErrorKeepsStreamUsable ==
    [][(IsRecvStep /\ ret'.err = UnmarshalError) =>
        /\ ret'.err.kind = "StreamError"
        /\ ~closed' /\ bodyCloses' = 0 /\ ctxErr' = NilErr
        /\ \E j \in 1..(Len(input.lines) + 1) :
              /\ pos = LineStart(input, j)
              /\ pos' = LineStart(input, EventEnd(input.lines, j))
              /\ NextResult(input, pos') =
                    NextResult(Suffix(input, EventEnd(input.lines, j)), 0)]_vars

\* a decode error followed by the item of the next event
C5_Witness ==
    /\ Len(results) >= 2
    /\ results[1].err = UnmarshalError
    /\ results[2].err = NilErr /\ results[2].item = 1
    /\ ~closed /\ bodyCloses = 0

\* C6: when the body ends after the last field line of an event, with or
\* without a newline after that line, Recv returns that event's item and the
\* Recv after it returns io.EOF.
C6_FinalEventWithoutBlankLine ==
    \A i \in 0..Len(input.lines) :
        LET head == SubSeq(input.lines, 1, i)
            last == SubSeq(input.lines, i + 1, Len(input.lines))
            exp == ExpectedItems(input.lines)
        IN  (WellFormed(head) /\ WellFormedEvent(last)) =>
                \A k \in 1..Len(results) :
                    /\ k <= Len(exp) => results[k] = [item |-> exp[k], err |-> NilErr]
                    /\ k = Len(exp) + 1 => results[k].err = EOF

RECURSIVE JoinLF(_)
JoinLF(vs) ==
    IF vs = <<>> THEN <<>>
    ELSE IF Len(vs) = 1 THEN vs[1]
    ELSE vs[1] \o <<LF>> \o JoinLF(Tail(vs))

\* C7: the payload handed to the decoder for an event whose lines are data:
\* lines with values v1..vk (empty ones included) is v1 LF v2 ... LF vk.
C7_DataLinesJoinedByNewline ==
    LET i == FirstBlank(input.lines)
        g == SubSeq(input.lines, 1, i - 1)
    IN  (/\ i > 1
         /\ input.term
         /\ \A k \in 1..Len(g) : IsDataLine(g[k])
         /\ Len(results) = 1) =>
            event.data = JoinLF([k \in 1..Len(g) |-> DataText(g[k])])

RECURSIVE RecvSeq(_, _, _)
RecvSeq(b, p, n) ==
    IF n = 0 THEN <<>>
    ELSE LET r == RecvStep(b, p, FALSE, FALSE, NilErr)
         IN  <<[item |-> r.item, err |-> r.err]>> \o RecvSeq(b, r.pos, n - 1)

IsIgnoredLine(l) == l \in {Comment, Junk}
IsKeptLine(l) == ~IsIgnoredLine(l)

\* C8: comment lines and lines without a colon never change what the Recv
\* calls return: the results are those of the body without these lines.
C8_IgnoredLinesChangeNothing ==
    input.term =>
        results = RecvSeq(BodyOf([input EXCEPT !.lines = SelectSeq(input.lines, IsKeptLine)]),
                          0, Len(results))

\* the table of status codes and machine codes
CodeTable(s) ==
    CASE s = 400 -> "invalid_request"
      [] s = 401 -> "authentication_error"
      [] s = 403 -> "permission_error"
      [] s = 404 -> "not_found"
      [] s = 429 -> "rate_limit_exceeded"
      [] s >= 500 /\ s \notin {400, 401, 403, 404, 429} -> "server_error"
      [] OTHER -> "api_error"

IsErrorStatus(s) == s < 200 \/ s > 299

\* C9: a response whose status s is outside 200..299 and whose body is a
\* JSON object makes Get, Post, Put, Delete and Do return an APIError with
\* HTTPStatusCode() = s and Code() given by the table applied to s.
C9_StatusAndCodeFromResponse ==
    (/\ call.op \in {"Get", "Post", "Put", "Delete", "Do"}
     /\ wire.hasResp
     /\ IsErrorStatus(wire.status)
     /\ wire.body.kind = "object") =>
        /\ call.err.type = "APIError"
        /\ HTTPStatusCode(call.err) = wire.status
        /\ Code(call.err) = CodeTable(wire.status)

\* a 404 whose body says status_code 200
C9_Witness ==
    /\ call.op = "Get"
    /\ wire.hasResp /\ wire.status = 404
    /\ wire.body.kind = "object" /\ wire.body.sc = 200
    /\ HTTPStatusCode(call.err) = 404
    /\ Code(call.err) = "not_found"

\* C10: for a status outside 200..299 the APIError's message is the reason
\* phrase when the body is empty, the raw body when it is not of the error
\* shape, the body's message otherwise; so a body that holds an explanation
\* always has it carried by the error.
C10_MessageCarriesExplanation ==
    (/\ call.op # "none"
     /\ wire.hasResp
     /\ IsErrorStatus(wire.status)
     /\ ~wire.readFails) =>
        LET b == wire.body
            m == call.err.Message
        IN  /\ b.kind = "empty" => m = StatusText(wire.status)
            /\ (b.kind \in {"text", "array"} \/ b.sc = ScString \/ b.msgKind = "number")
                  => m = b.raw
            /\ (b.kind = "object" /\ b.sc # ScString /\ b.msgKind = "string") => m = b.msg
            /\ (b.kind = "text" \/ b.msgKind = "string" \/ b.detail # "")
                  => (m # "" /\ m \in {b.raw, b.msg})

\* C11: when a transport call has returned, DoRaw on a 2xx status has handed
\* over the response with its body open and unread and a nil error; DoRaw on
\* any other status has returned no response and an APIError and closed the
\* body; Get, Post, Put, Delete and Do have closed the body of every
\* response they received.  No call returns both a response and an error,
\* and a body is open only if the caller was handed the response.
C11_BodyOwnership ==
    (call.op # "none") =>
        /\ (call.op = "DoRaw" /\ wire.hasResp /\ ~IsErrorStatus(wire.status)) =>
               /\ call.resp /\ call.err = NoError
               /\ ~wire.bodyClosed /\ ~wire.bodyRead
        /\ (call.op = "DoRaw" /\ wire.hasResp /\ IsErrorStatus(wire.status)) =>
               /\ ~call.resp /\ call.err.type = "APIError"
               /\ wire.bodyClosed
        /\ (call.op \in {"Get", "Post", "Put", "Delete", "Do"} /\ wire.hasResp) =>
               /\ wire.bodyClosed /\ ~call.resp
        /\ ~(call.resp /\ call.err # NoError)
        /\ (wire.hasResp /\ ~wire.bodyClosed) => call.resp
        /\ ~wire.hasResp => (~call.resp /\ call.err.type = "RequestError")

\* a 299 handed over open and unread by DoRaw
C11_Witness ==
    /\ call.op = "DoRaw"
    /\ wire.hasResp /\ wire.status = 299
    /\ call.resp /\ call.err = NoError
    /\ ~wire.bodyClosed /\ ~wire.bodyRead

\* a step that is a service call of the client
IsServiceCall == <<wire', call', svc'>> # <<wire, call, svc>>

\* the outcome of the request of the step, as a RetryPolicy is given it
OutcomeResp == IF wire'.hasResp THEN Resp(wire'.status) ELSE NoResp
OutcomeErr == IF wire'.hasResp THEN "" ELSE "dial tcp"

\* the client's policy asks for a retry of the request of the step
PolicyWantsRetry ==
    /\ client.retryPolicy # NoPolicy
    /\ client.retryPolicy.MaxRetryCount >= 1
    /\ wire'.sent >= 1
    /\ RetryableFunc(client.retryPolicy, OutcomeResp, OutcomeErr).value

\* C12: on a client configured with WithRetryPolicy(p), a service call whose
\* request has an outcome for which p.ShouldRetry is true sends the request
\* again (p.MaxRetries() being at least 1) before it returns.
C12_RetriedWhenPolicySaysSo ==
    [][(IsServiceCall /\ PolicyWantsRetry) => wire'.sent >= 2]_vars

\* C13: a service call, which is one call of Do or DoRaw, sends at most one
\* HTTP request whatever the outcome and whatever retry policy the client
\* holds, and no method of the policy is called.
C13_OneRequestPerCall ==
    [][IsServiceCall =>
        /\ wire'.sent <= 1
        /\ (wire'.sent = 1) = (call'.err.Message # "failed to create request")
        /\ policyCall' = policyCall]_vars

\* one request for a 503 under a policy that asks to retry it
C13_Witness ==
    /\ client.retryPolicy = DefaultRetryPolicy
    /\ svc.op = "Create" /\ call.op = "Post"
    /\ wire.sent = 1 /\ wire.hasResp /\ wire.status = 503
    /\ RetryableFunc(client.retryPolicy, Resp(wire.status), "").value

\* the authentication headers among the headers h
AuthHeaders(h) == {x \in h : x[1] \in {"X-API-Key", "X-Admin-Key", "Authorization"}}

\* C14: once WithAPIKey, WithAdminKey or WithBearerToken has configured the
\* client, as an option or as a method, before or after a service accessor
\* was used, every request a service call sends carries the header of the
\* strategy configured last and neither of the other two.
C14_LastConfiguredAuthOnRequest ==
    [][(IsServiceCall /\ wire'.sent >= 1 /\ client.auth # NilAuth) =>
        AuthHeaders(wire'.headers) = Apply(client.auth, {})]_vars

\* C15: the error of a service call that failed on a status outside 200..299
\* is, or unwraps by errors.As to, a *tabby.APIError with that status; the
\* error of a call that failed in transport or decoding matches
\* *tabby.RequestError.
C15_ErrorsMatchPublicTypes ==
    (svc.op # "none" /\ svc.err # NoError) =>
        IF wire.hasResp /\ IsErrorStatus(wire.status)
        THEN As(svc, "tabby", "APIError") /\ svc.err.StatusCode = wire.status
        ELSE As(svc, "tabby", "RequestError")

\* a Recv has returned io.EOF
SawEOF == \E i \in DOMAIN results : results[i].err = EOF

SawCtxErr == \E i \in DOMAIN results : results[i].err \in {Canceled, DeadlineExceeded}

\* C17 as stated: the body has been closed once Close() was called, once a
\* Recv has reported the end of the stream, and once a Recv has reported
\* the cancellation of the context.
C17_BodyReleasedInThreeSituations ==
    /\ closeRets # <<>> => bodyCloses >= 1
    /\ SawEOF => bodyCloses >= 1
    /\ SawCtxErr => bodyCloses >= 1

\* C17: the body is closed by the first Close() and by nothing else: it is
\* open as long as Close() has not been called, also after a Recv has
\* returned io.EOF or the context's error, and closed once from then on.
C17_BodyReleasedByCloseOnly ==
    bodyCloses = IF closeRets = <<>> THEN 0 ELSE 1

\* io.EOF and the context's error have both been returned and the body is
\* still open
C17_Witness ==
    /\ SawEOF /\ SawCtxErr
    /\ closeRets = <<>>
    /\ ~closed /\ bodyCloses = 0

\* C18: the request timeout bounds only the establishing of a streaming
\* call: on an open stream that was not closed and whose context was not
\* cancelled, a Recv returns what the body holds next, whether or not the
\* timeout has expired since the stream was opened.
C18_TimeoutDoesNotEndStream ==
    [][(IsRecvStep /\ ~closed /\ ctxErr = NilErr) =>
        results'[Len(results')] = NextResult(input, pos)]_vars

\* the documented delay before the n-th retry, in milliseconds
DocumentedDelay(n) == CASE n = 1 -> 100 [] n = 2 -> 1200 [] n = 3 -> 2300

\* C19: DefaultRetryPolicy() has MaxRetries() = 3, and its RetryDelay(1),
\* RetryDelay(2), RetryDelay(3) are within 100 ms of 100 ms, 1.2 s and 2.3 s.
C19_DefaultDelaysAsDocumented ==
    (policyCall.policy = "default") =>
        /\ policyCall.op = "MaxRetries" => policyCall.count = 3
        /\ (policyCall.op = "RetryDelay" /\ policyCall.attempts \in 1..3) =>
               /\ policyCall.delay - DocumentedDelay(policyCall.attempts) <= 100
               /\ DocumentedDelay(policyCall.attempts) - policyCall.delay <= 100

\* C20: DefaultRetryPolicy().ShouldRetry(resp, err) returns a value for
\* every combination of a present or absent response and a present or
\* absent error: true exactly when err is non-nil or the status is at least
\* 500, false otherwise.
C20_ShouldRetryTotal ==
    (policyCall.policy = "default" /\ policyCall.op = "ShouldRetry") =>
        /\ ~policyCall.panics
        /\ policyCall.value =
              (policyCall.err # "" \/
               (policyCall.resp.present /\ policyCall.resp.StatusCode >= 500))

\* the call that has just returned is one of Do, Get, Post, Put, Delete and
\* the server answered it with a 2xx status
IsDoOn2xx ==
    /\ call.op \in {"Do", "Get", "Post", "Put", "Delete"}
    /\ wire.hasResp
    /\ wire.status >= 200 /\ wire.status < 300

\* the JSON document fits a result struct with a string field "message"
DecodesIntoOut(body) ==
    /\ body.kind \in {"object", "null"}
    /\ body.msgKind # "number"

\* C21: on a 2xx response Do returns nil exactly when out is nil, the status
\* is 204, or the body was read and is empty or decodes into out; in every
\* other case (the body cannot be read, or does not decode) it returns a
\* RequestError that carries the response status and wraps the cause, so a
\* decode failure is never reported as success.
C21_SuccessDecodesOrFails ==
    IsDoOn2xx =>
        LET quiet == ~call.hasResult \/ wire.status = 204
            clean == ~wire.readFails
                     /\ (wire.body.kind = "empty" \/ DecodesIntoOut(wire.body))
        IN  /\ (call.err = NoError) <=> (quiet \/ clean)
            /\ ~(quiet \/ clean) =>
                  /\ call.err.pkg = "internal/errors"
                  /\ call.err.type = "RequestError"
                  /\ call.err.StatusCode = wire.status
                  /\ call.err.Err # ""
                  /\ ~call.out.set
            /\ call.out.set => call.err = NoError /\ DecodesIntoOut(wire.body)

\* a Get with a result answered 200 with a JSON array, which does not fit the
\* result struct, has returned the RequestError
C21_Witness ==
    /\ IsDoOn2xx
    /\ call.op = "Get" /\ call.hasResult
    /\ wire.status = 200 /\ ~wire.readFails /\ wire.body.kind = "array"
    /\ call.err.type = "RequestError" /\ call.err.StatusCode = 200

\* this step is a ReadStream call returning
IsReadStreamStep ==
    /\ svc'.op = "ReadStream"
    /\ \/ <<wire, svc>>' # <<wire, svc>>
       \/ ret'.op = "New" /\ ret.op # "New"

\* C22: ReadStream returns a stream and a nil error when the status is 200,
\* and the stream is usable: it is open, nothing of the body was read or
\* closed, and its first Recv returns the first event of the body.  For
\* every other status it returns no stream and a *tabby.APIError whose
\* StatusCode is the response status, having read and closed the body.
C22_ReadStreamOnlyOn200 ==
    [][/\ IsReadStreamStep =>
             IF wire'.status = 200
             THEN /\ svc'.stream /\ svc'.err = NoError
                  /\ ~wire'.bodyRead /\ ~wire'.bodyClosed
                  /\ ~closed' /\ ctxErr' = NilErr /\ pos' = 0 /\ bodyCloses' = 0
             ELSE /\ ~svc'.stream
                  /\ svc'.err.pkg = "tabby" /\ svc'.err.type = "APIError"
                  /\ svc'.err.StatusCode = wire'.status
                  /\ wire'.bodyRead /\ wire'.bodyClosed
                  /\ UNCHANGED streamVars
       /\ (IsRecvStep /\ svc.stream /\ results = <<>> /\ ~closed /\ ctxErr = NilErr) =>
             results'[1] = [item |-> 1, err |-> NilErr]]_vars

\* ReadStream has refused a 204 response, with its body read and closed
C22_Witness ==
    /\ svc.op = "ReadStream" /\ ~svc.stream
    /\ wire.status = 204 /\ wire.bodyRead /\ wire.bodyClosed
    /\ svc.err.type = "APIError" /\ svc.err.StatusCode = 204

\* the goroutines that are inside Recv past s.mu.Lock()
Receiving == {t \in Threads : threads[t].pc = "Recv:Read"}

\* C23: Recv, Close and IsClosed on one stream exclude each other.  At most
\* one goroutine is inside Recv, and from the moment a Recv holds the lock
\* until the step in which it returns, blocked reads included, no Close and
\* no IsClosed returns, the closed flag does not change and the body is not
\* closed; the context can be cancelled by its owner but not by Close.  So a
\* Close issued during a blocked read completes only after the read.
C23_CallsExcludeEachOther ==
    [][/\ Cardinality(Receiving) <= 1
       /\ (Receiving # {}) <=> (mu # 0)
       /\ Receiving # {} =>
             /\ closed' = closed
             /\ bodyCloses' = bodyCloses
             /\ closeRets' = closeRets
             /\ ret' # ret => ret'.op = "Recv" /\ Receiving' = {}
             /\ \A t \in Threads :
                   threads[t].pc = "Close:Lock" => threads'[t].pc = "Close:Lock"]_vars

\* goroutine 1 is reading the body inside Recv, having read some of it,
\* while goroutine 2 has called Close and waits; nothing is closed
C23_Witness ==
    /\ threads[1].pc = "Recv:Read" /\ pos > 0
    /\ threads[2].pc = "Close:Lock"
    /\ ~closed /\ bodyCloses = 0 /\ closeRets = <<>> /\ ctxErr = NilErr

\* the results of the first n Recv calls of one caller reading the body alone
AloneResults(n) == RecvSeq(BodyOf(input), 0, n)

\* C24: when several goroutines call Recv on one stream that is neither
\* closed nor cancelled, the results, in the order in which the calls got
\* the lock, are those of a single caller reading the body event by event;
\* for a body of well-formed events they are its items in body order and
\* then io.EOF.  No event is lost, repeated, split or merged, and every
\* result went to exactly one goroutine.
C24_EachEventToOneCaller ==
    (~closed /\ ctxErr = NilErr) =>
        /\ results = AloneResults(Len(results))
        /\ WellFormed(input.lines) =>
              \A k \in 1..Len(results) :
                 results[k] = IF k <= Len(ExpectedItems(input.lines))
                              THEN [item |-> ExpectedItems(input.lines)[k], err |-> NilErr]
                              ELSE [item |-> 0, err |-> EOF]
        /\ UNION {threads[t].got : t \in Threads} = 1..Len(results)
        /\ \A t, u \in Threads : t # u => threads[t].got \cap threads[u].got = {}

\* two goroutines called Recv at the same time on a body of two events:
\* goroutine 2 got the first event and goroutine 1 the second
C24_Witness ==
    /\ input.lines = <<Data1, Blank, Data2, Blank>>
    /\ ~closed /\ ctxErr = NilErr
    /\ results = <<[item |-> 1, err |-> NilErr], [item |-> 2, err |-> NilErr]>>
    /\ threads[2].got = {1} /\ threads[1].got = {2}

\* C25: a Recv that returns ErrStreamClosed or the context's error has read
\* nothing: the reader's position and the last parsed event are as before
\* the call, so the call consumes or skips no event.
C25_RefusedRecvReadsNothing ==
    [][(IsRecvStep /\ ret'.err \in {ErrStreamClosed, Canceled, DeadlineExceeded}) =>
          /\ pos' = pos
          /\ event' = event
          /\ UNCHANGED <<input, closed, ctxErr, bodyCloses>>]_vars

\* Recv has returned context.Canceled on an open stream whose body still
\* holds unread bytes
C25_Witness ==
    /\ ret.op = "Recv" /\ ret.err = Canceled
    /\ ~closed /\ ctxErr = Canceled
    /\ pos < Len(BodyOf(input))

\* the places where one more blank line goes before the first event or
\* between two events: at the start of the body, and next to a blank line
BlankSpots(lines) ==
    {j \in 1..(Len(lines) + 1) :
        \/ j = 1
        \/ lines[j - 1] = Blank
        \/ j <= Len(lines) /\ lines[j] = Blank}

\* the input with a blank line put in as line j
InsertBlank(in, j) ==
    [in EXCEPT !.lines = SubSeq(in.lines, 1, j - 1) \o <<Blank>>
                         \o SubSeq(in.lines, j, Len(in.lines))]

\* the number of records of the body: the runs of lines that are not blank
Records(lines) ==
    Cardinality({j \in 1..Len(lines) :
                    lines[j] # Blank /\ (j = 1 \/ lines[j - 1] = Blank)})

\* C26: the results of successive Recv calls stay the same when one more
\* blank line is put before the first event or between two events, and
\* when every LF line ending of the body becomes CRLF; blank lines never
\* make an event of their own, so no more results other than io.EOF come
\* back than the body has records.
C26_BlankLinesAndCRLFChangeNothing ==
    /\ \A j \in BlankSpots(input.lines) :
          results = RecvSeq(BodyOf(InsertBlank(input, j)), 0, Len(results))
    /\ results = RecvSeq(BodyOf([input EXCEPT !.crlf = TRUE]), 0, Len(results))
    /\ Cardinality({k \in 1..Len(results) : results[k].err # EOF}) <= Records(input.lines)

\* the body LF, data:1 LF, LF, LF has been read to its end: one item, then
\* io.EOF
C26_Witness ==
    /\ input = [lines |-> <<Blank, Data1, Blank, Blank>>, crlf |-> FALSE, term |-> TRUE]
    /\ results = <<[item |-> 1, err |-> NilErr], [item |-> 0, err |-> EOF]>>

\* C27: on a finite body without read errors, with the stream neither
\* closed nor cancelled, a consumer that keeps calling Recv, going on after
\* a StreamError, receives io.EOF in the end, because every Recv that
\* returns an item or a decode StreamError has consumed at least one line
\* of the body.
C27_DrainReachesEOF ==
    /\ [][(IsRecvStep /\ ret'.err \in {NilErr, UnmarshalError}) =>
             /\ pos' > pos
             /\ pos' <= Len(BodyOf(input))
             /\ Contains(SubSeq(BodyOf(input), pos + 1, pos'), LF)]_vars
    /\ <>SawEOF

\* the consumer went on after a decode StreamError, got the next item and
\* then io.EOF
C27_Witness ==
    /\ Len(results) = 3
    /\ results[1].err = UnmarshalError
    /\ results[2] = [item |-> 1, err |-> NilErr]
    /\ results[3].err = EOF
    /\ pos = Len(BodyOf(input))

\* what an option configures
Setting(o) ==
    IF o.name \in {"WithAPIKey", "WithAdminKey", "WithBearerToken"} THEN "auth" ELSE o.name

\* no two of the options configure the same thing
Independent(os) ==
    \A i, j \in DOMAIN os : i # j => Setting(os[i]) # Setting(os[j])

\* the options os in every order
Orders(os) ==
    {[i \in DOMAIN os |-> os[f[i]]] : f \in Permutations(DOMAIN os)}

\* the configuration in force: base URL, authenticator, HTTP client and the
\* timeout of its requests; and whether construction came to an end
Effective(c) ==
    [baseURL |-> c.baseURL, auth |-> c.auth, httpClient |-> c.httpClient,
     timeout |-> IF c.httpClient = "nil" THEN 0 ELSE c.Timeout[c.httpClient],
     panicked |-> c.panicked]

\* C28: a client built by NewClient from options that configure different
\* things has the same base URL, authenticator, HTTP client and request
\* timeout as the client built from the same options in any other order.
C28_OptionOrderIrrelevant ==
    \A os \in SeqsUpTo(ConfigOptions, MaxOptions) :
        (client = NewClient(os) /\ Independent(os)) =>
            \A p \in Orders(os) : Effective(NewClient(p)) = Effective(client)

\* base and endpoint joined by exactly one "/"
JoinOne(base, endpoint) == TrimRightSlash(base) \o <<"/">> \o TrimLeftSlash(endpoint)

\* C29: Create and CreateStream of a service obtained from the accessor
\* under the client's present configuration address the same URL: the base
\* URL now configured, joined to the endpoint path by exactly one "/",
\* whether or not the base URL ends in a slash and whatever WithBaseURL and
\* accessor calls came before.
C29_CallsAddressConfiguredURL ==
    [][(IsServiceCall /\ svc'.op \in {"Create", "CreateStream"}
        /\ service.baseURL = client.baseURL) =>
          svc'.url = JoinOne(client.baseURL, CompletionsEndpoint)]_vars

\* C30: Stream[T] and GenericStream[T] are equivalent: given the same body,
\* the same context events and the same sequence of Recv and Close calls, the
\* two have returned the same results from Recv (items, io.EOF,
\* ErrStreamClosed, context error, StreamError) and from Close, and have
\* closed the body the same number of times, after every call.
C30_StreamsEquivalent ==
    InStep => /\ generic.results = results
              /\ generic.closeRets = closeRets
              /\ generic.bodyCloses = bodyCloses
              /\ generic.closed = closed

\* both streams have delivered an item, refused an event that does not decode,
\* been closed, and refused a Recv after that
C30_Witness ==
    /\ InStep
    /\ generic.results = results
    /\ generic.bodyCloses = 1
    /\ bodyCloses = 1
    /\ \E i, j, k \in 1..Len(results) :
           /\ results[i].err = NilErr
           /\ results[j].err = UnmarshalError
           /\ results[k].err = ErrStreamClosed

\* the JSON body of the last service call has the key k
HasKey(k) == \E kv \in request.json : kv[1] = k

\* C31 (as the code has it): the body that Create of the completions and chat
\* services marshals has no "stream" key at all (Stream is false in the copy
\* and the field is omitempty), the body that CreateStream marshals has
\* "stream": true, whatever the caller set in req.Stream, and the caller's
\* request struct is after the call what it was before.
C31_StreamFlagForced ==
    /\ svc.op \in {"Create", "ChatCreate"} => ~HasKey("stream")
    /\ svc.op \in {"CreateStream", "ChatCreateStream"} => <<"stream", "true">> \in request.json
    /\ request.req = request.passed

\* C31 as stated: a Create that sent its request sent stream=false in it
C31_CreateSendsStreamFalse ==
    (svc.op \in {"Create", "ChatCreate"} /\ wire.sent > 0) =>
        <<"stream", "false">> \in request.json

\* a chat Create went out for a request that the caller had set to stream
C31_Witness ==
    /\ svc.op = "ChatCreate"
    /\ wire.sent > 0
    /\ request.passed.Stream
    /\ request.req.Stream
    /\ ~HasKey("stream")

\* C32: a client creates at most one rest.Client, and the services that the
\* accessors have returned, to whichever goroutine, are all bound to that one.
C32_OneRestClient ==
    /\ restClient.id <= 1
    /\ Cardinality(UNION {threads[t].got : t \in Threads}) <= 1

\* C33: whenever Recv of Stream[T] or of GenericStream[T] returns a non-nil
\* error (ErrStreamClosed, context error, io.EOF or StreamError) the item it
\* returns is the zero value of T, also when json.Unmarshal had decoded a
\* part of the payload into its variable before failing.
C33_ZeroItemWithError ==
    /\ \A i \in DOMAIN results : results[i].err # NilErr => results[i].item = 0
    /\ \A i \in DOMAIN generic.results :
           generic.results[i].err # NilErr => generic.results[i].item = 0

\* both streams returned an item, then a StreamError for a payload of which
\* json.Unmarshal had decoded a part, and were then closed and called again
C33_Witness ==
    /\ InStep
    /\ Len(results) >= 3
    /\ Len(generic.results) >= 3
    /\ Unmarshal(event.data).target # 0
    /\ \E i, j, k \in DOMAIN results :
          /\ results[i].err = NilErr /\ results[i].item # 0
          /\ results[j].err = UnmarshalError /\ generic.results[j].err = UnmarshalError
          /\ results[k].err = ErrStreamClosed /\ generic.results[k].err = ErrStreamClosed

====
